---- MODULE Spec2Model ----
(***************************************************************************)
(* Model of the resilient request client of frontend/public/js/API.js:     *)
(* the cache store (apiCache), the connectivity flag (isOnline), the       *)
(* retry loop of makeRequestWithRetry, the error classifier                *)
(* handleRequestError and the public operations of class ProjectAPI.       *)
(* The server side is the Express router of backend/routes/api.js and the  *)
(* password recovery of the auth controller, over the SQL database (db),   *)
(* with the requests the server is handling (srv).                         *)
(*                                                                         *)
(* Strings that the code builds by concatenation (cache keys, endpoints,   *)
(* error messages) are sequences of string tokens, and String.includes is  *)
(* containment of a contiguous run of tokens.                              *)
(***************************************************************************)
EXTENDS Integers, Sequences, FiniteSets, TLC

VARIABLES isOnline, apiCache, now, calls, issued, db, srv

vars == <<isOnline, apiCache, now, calls, issued, db, srv>>

(***************************************************************************)
(* Bounds of the model.                                                    *)
(***************************************************************************)
\* number of facade calls issued in one behaviour
MaxIssued == 3
\* latest instant of the clock
MaxTime == 300001

\* the caller awaits each facade call before it issues the next one
Calls == {1}

\* the calls that can be pending at once when callers do not await
Slots == {1, 2}

\* latest instant of the database clock: one token lifetime
MaxClock == 3600000
\* number of recovery tokens generated in one behaviour
MaxTokens == 2
\* the requests the server can be handling at once
Requests == {1, 2}

(***************************************************************************)
(* API_CONFIG and CACHE_DURATION.                                          *)
(***************************************************************************)
timeout == 10000
retryAttempts == 3
retryDelay == 1000
CACHE_DURATION == 5 * 60 * 1000
healthTimeout == 5000

(***************************************************************************)
(* Small helpers on token strings.                                         *)
(***************************************************************************)
\* String.prototype.includes: sub occurs as a contiguous run of s
Includes(s, sub) ==
    \E i \in 0..(Len(s) - Len(sub)) :
        \A j \in 1..Len(sub) : s[i + j] = sub[j]

RECURSIVE TrimStart(_)
TrimStart(s) == IF s # <<>> /\ Head(s) = " " THEN TrimStart(Tail(s)) ELSE s

RECURSIVE TrimEnd(_)
TrimEnd(s) ==
    IF s # <<>> /\ s[Len(s)] = " " THEN TrimEnd(SubSeq(s, 1, Len(s) - 1)) ELSE s

\* String.prototype.trim on a sequence of characters
Trim(s) == TrimEnd(TrimStart(s))

\* encodeURIComponent on a sequence of characters over {" ", letters, digits}
RECURSIVE encodeURIComponent(_)
encodeURIComponent(s) ==
    IF s = <<>> THEN <<>>
    ELSE <<(IF Head(s) = " " THEN "%20" ELSE Head(s))>> \o encodeURIComponent(Tail(s))

(***************************************************************************)
(* JavaScript values that reach validateProjectData.                       *)
(***************************************************************************)
NaN == -1

Undefined == [t |-> "undefined", len |-> 0, trim |-> 0, fmt |-> FALSE, time |-> NaN, iso |-> FALSE, val |-> ""]

\* a string of length len whose trimmed length is trim
Str(len, trim) == [Undefined EXCEPT !.t = "string", !.len = len, !.trim = trim]

\* a truthy value that is not a string, not an array
NotAString == [Undefined EXCEPT !.t = "number", !.time = 1]

\* a date string: fmt = matches /^\d{4}-\d{2}-\d{2}$/, time = new Date(s).getTime()
\* (NaN when unparsable), iso = toISOString().slice(0,10) === s
DateStr(len, fmt, time, iso) ==
    [Undefined EXCEPT !.t = "string", !.len = len, !.trim = len, !.fmt = fmt, !.time = time, !.iso = iso]

\* a status string
StatusStr(v) == [Undefined EXCEPT !.t = "string", !.len = Len(v), !.trim = Len(v), !.val = v]

\* an array of len elements
Arr(len) == [Undefined EXCEPT !.t = "array", !.len = len]

\* JavaScript truthiness
Truthy(v) ==
    CASE v.t = "undefined" -> FALSE
      [] v.t = "string" -> v.len > 0
      [] OTHER -> TRUE

\* "2024-01-01", "2024-06-01", "2025-01-01" as day ordinals
Day_2024_01_01 == DateStr(10, TRUE, 1, TRUE)
Day_2024_06_01 == DateStr(10, TRUE, 2, TRUE)
Day_2025_01_01 == DateStr(10, TRUE, 3, TRUE)
\* "" , "garbage", "2024-6-1" (parsable, wrong format), "2024-02-30" (rolls over)
Day_empty == DateStr(0, FALSE, NaN, FALSE)
Day_garbage == DateStr(7, FALSE, NaN, FALSE)
Day_2024_6_1 == DateStr(8, FALSE, 2, FALSE)
Day_2024_02_30 == DateStr(10, TRUE, 2, FALSE)

\* an object with the six validated properties; order tells in which order
\* the properties were written into the object (0 = as listed here)
ProjectData(name, startDate, endDate, status, description, users) ==
    [obj |-> TRUE, order |-> 0,
     name |-> name, startDate |-> startDate, endDate |-> endDate,
     status |-> status, description |-> description, users |-> users]

\* the same properties written in another order
Reordered(data) == [data EXCEPT !.order = 1]

\* the object literal {}
EmptyObject == ProjectData(Undefined, Undefined, Undefined, Undefined, Undefined, Undefined)

\* null, undefined or a primitive passed instead of an object
NotAnObject ==
    [ProjectData(Undefined, Undefined, Undefined, Undefined, Undefined, Undefined)
        EXCEPT !.obj = FALSE]

(***************************************************************************)
(* isValidDate and validateProjectData (class ProjectAPI).                 *)
(***************************************************************************)
isValidDate(dateString) ==
    IF ~Truthy(dateString) THEN FALSE
    ELSE IF ~dateString.fmt THEN FALSE
    ELSE dateString.time # NaN /\ dateString.iso

\* the required fields of a creation
requiredErrors(projectData) ==
    (IF ~Truthy(projectData.name) \/ projectData.name.t # "string"
        \/ projectData.name.trim = 0
     THEN <<"El nombre del proyecto es requerido">> ELSE <<>>)
    \o
    (IF ~Truthy(projectData.startDate)
     THEN <<"La fecha de inicio es requerida">> ELSE <<>>)
    \o
    (IF ~Truthy(projectData.endDate)
     THEN <<"La fecha de finalizacion es requerida">> ELSE <<>>)

nameErrors(name) ==
    IF name.t # "undefined"
    THEN IF name.t # "string" \/ name.trim = 0
         THEN <<"El nombre del proyecto debe ser un texto valido">>
         ELSE IF name.trim > 100
              THEN <<"El nombre del proyecto no puede exceder 100 caracteres">>
              ELSE <<>>
    ELSE <<>>

dateErrors(startDate, endDate) ==
    (IF startDate.t # "undefined" /\ ~isValidDate(startDate)
     THEN <<"La fecha de inicio debe ser valida (formato: YYYY-MM-DD)">> ELSE <<>>)
    \o
    (IF endDate.t # "undefined" /\ ~isValidDate(endDate)
     THEN <<"La fecha de finalizacion debe ser valida (formato: YYYY-MM-DD)">> ELSE <<>>)


\* variant: endDate < startDate, equal dates pass
dateNotAfter_strict(endDate, startDate) ==
    endDate.time # NaN /\ startDate.time # NaN /\ endDate.time < startDate.time

\* endDate <= startDate on two Date objects: false when either is Invalid Date
dateNotAfter(endDate, startDate) ==
    endDate.time # NaN /\ startDate.time # NaN /\ endDate.time <= startDate.time

dateOrderErrors(startDate, endDate) ==
    IF Truthy(startDate) /\ Truthy(endDate) /\ dateNotAfter(endDate, startDate)
    THEN <<"La fecha de finalizacion debe ser posterior a la fecha de inicio">>
    ELSE <<>>

statusErrors(status) ==
    IF status.t # "undefined"
       /\ ~(status.t = "string" /\ status.val \in {"en_proceso", "terminado"})
    THEN <<"El estado debe ser en_proceso o terminado">> ELSE <<>>

descriptionErrors(description) ==
    IF description.t # "undefined"
    THEN IF description.t # "string"
         THEN <<"La descripcion debe ser texto">>
         ELSE IF description.len > 500
              THEN <<"La descripcion no puede exceder 500 caracteres">>
              ELSE <<>>
    ELSE <<>>

usersErrors(users) ==
    IF users.t # "undefined"
    THEN IF users.t # "array"
         THEN <<"Los usuarios deben ser un arreglo">>
         ELSE IF users.len > 7
              THEN <<"No se pueden asignar mas de 7 usuarios por proyecto">>
              ELSE <<>>
    ELSE <<>>

\* the errors array of validateProjectData, in the order the code pushes
validateErrors(projectData, isCreation) ==
    IF ~projectData.obj
    THEN <<"Los datos del proyecto deben ser un objeto valido">>
    ELSE (IF isCreation THEN requiredErrors(projectData) ELSE <<>>)
         \o nameErrors(projectData.name)
         \o dateErrors(projectData.startDate, projectData.endDate)
         \o dateOrderErrors(projectData.startDate, projectData.endDate)
         \o statusErrors(projectData.status)
         \o descriptionErrors(projectData.description)
         \o usersErrors(projectData.users)

validateProjectData(projectData, isCreation) ==
    [isValid |-> Len(validateErrors(projectData, isCreation)) = 0,
     errors |-> validateErrors(projectData, isCreation)]

(***************************************************************************)
(* Inputs of the public operations.                                        *)
(***************************************************************************)
\* project ids: empty, "5", "7"
ProjectIds == {"", "5", "7"}

\* search terms as character sequences: "", " ", "a", " a"
SearchTerms == {<<>>, <<" ">>, <<"a">>, <<" ", "a">>}

\* status filters of getProjectsByStatus
StatusFilters == {"en_proceso", "terminado"}

ValidName == Str(5, 5)

\* a complete valid project: {name, startDate:"2024-01-01", endDate:"2024-06-01", status}
ValidData ==
    ProjectData(ValidName, Day_2024_01_01, Day_2024_06_01, StatusStr("en_proceso"),
                Str(1, 1), Arr(7))

\* partial update {status:"terminado"}
StatusOnly ==
    ProjectData(Undefined, Undefined, Undefined, StatusStr("terminado"), Undefined, Undefined)

\* {name:"", description:"x", endDate:"2025-01-01"}
EmptyName ==
    ProjectData(Str(0, 0), Undefined, Day_2025_01_01, Undefined, Str(1, 1), Undefined)

\* {endDate:"2024-01-01", startDate:"2024-06-01"}
EndBeforeStart ==
    ProjectData(Undefined, Day_2024_06_01, Day_2024_01_01, Undefined, Undefined, Undefined)

\* the project data the callers pass to createProject and updateProject
ProjectDatas == {NotAnObject, ValidData, StatusOnly, EmptyName, EndBeforeStart}

NameValues == {Undefined, Str(0, 0), Str(3, 0), ValidName, Str(100, 100), Str(101, 101),
               Str(102, 100), NotAString}

DateValues == {Undefined, Day_empty, Day_garbage, Day_2024_6_1, Day_2024_02_30,
               Day_2024_01_01, Day_2024_06_01, Day_2025_01_01, NotAString}

\* project data that varies one validated property (or both dates) at a time
FieldDatas ==
    ProjectDatas
    \cup {[ValidData EXCEPT !.name = n] : n \in NameValues}
    \cup {[d EXCEPT !.startDate = s, !.endDate = e] :
              d \in {ValidData, StatusOnly}, s \in DateValues, e \in DateValues}
    \cup {[ValidData EXCEPT !.status = v] : v \in {Undefined, StatusStr("otro"), NotAString}}
    \cup {[ValidData EXCEPT !.description = d] :
              d \in {Undefined, Str(0, 0), Str(500, 500), Str(501, 501), NotAString}}
    \cup {[ValidData EXCEPT !.users = u] : u \in {Undefined, Arr(0), Arr(8), NotAString}}

(***************************************************************************)
(* Response bodies, raw errors and result envelopes.                       *)
(***************************************************************************)
Project(id, status) == [id |-> id, status |-> status]

\* JSON bodies the server can answer with: arrays of projects, or an object
ArrayBody(items) == [kind |-> "array", items |-> items]
ObjectBody == [kind |-> "object", items |-> <<>>]

Bodies ==
    {ArrayBody(<<Project("5", "terminado"), Project("7", "en_proceso")>>),
     ObjectBody}

\* HTTP statuses of non-2xx answers and their status texts
ErrorStatuses == {400, 401, 403, 404, 500, 503}

statusText(status) ==
    CASE status = 400 -> "Bad Request"
      [] status = 401 -> "Unauthorized"
      [] status = 403 -> "Forbidden"
      [] status = 404 -> "Not Found"
      [] status = 500 -> "Internal Server Error"
      [] OTHER -> "Service Unavailable"

NoError == [name |-> "null", message |-> <<>>]
\* fetch rejected because controller.abort() ran
AbortError == [name |-> "AbortError", message |-> <<"The user aborted a request.">>]
\* fetch rejected at network level
FailedToFetch == [name |-> "TypeError", message |-> <<"Failed to fetch">>]
\* fetch rejected at network level, as other browsers word it
NetworkError ==
    [name |-> "TypeError", message |-> <<"NetworkError when attempting to fetch resource.">>]
\* response.json() rejected
SyntaxError == [name |-> "SyntaxError", message |-> <<"Unexpected token < in JSON">>]
\* throw new Error(`HTTP ${response.status}: ${response.statusText}`)
HttpError(status) ==
    [name |-> "Error", message |-> <<"HTTP ", ToString(status), ": ", statusText(status)>>]


\* variant: only the statuses from 500 on are not ok
responseOk_below500(status) == status >= 200 /\ status <= 499

\* Response.ok: the status is in the range 200-299
responseOk(status) == status >= 200 /\ status <= 299

\* the three ways one transport attempt can end
OkOutcome(body) == [ok |-> TRUE, status |-> 200, body |-> body, error |-> NoError]
HttpOutcome(status) ==
    [ok |-> responseOk(status), status |-> status, body |-> ObjectBody,
     error |-> HttpError(status)]
ErrorOutcome(error) == [ok |-> FALSE, status |-> 0, body |-> ObjectBody, error |-> error]

\* what one transport attempt can end with
Outcomes ==
    {OkOutcome(body) : body \in Bodies}
    \cup {HttpOutcome(status) : status \in ErrorStatuses}
    \cup {ErrorOutcome(error) : error \in {AbortError, FailedToFetch, NetworkError, SyntaxError}}

\* the outcomes used where several calls follow one another
CommonOutcomes ==
    {OkOutcome(body) : body \in Bodies} \cup {HttpOutcome(500), ErrorOutcome(AbortError)}

Success(data, status) == [success |-> TRUE, data |-> data, status |-> status]
Failure(error, code) == [success |-> FALSE, error |-> error, code |-> code]
NoResult == Failure(<<>>, "none")

(***************************************************************************)
(* handleRequestError.                                                     *)
(***************************************************************************)

\* variant: every rejection of fetch counts as an abort
isAbort_anyRejection(error) == error.name \in {"AbortError", "TypeError"}

\* error.name === 'AbortError'
isAbort(error) == error.name = "AbortError"

\* error.name === 'TypeError' && error.message.includes('Failed to fetch')
isFailedToFetch(error) ==
    error.name = "TypeError" /\ Includes(error.message, <<"Failed to fetch">>)

\* error.message.includes('HTTP <status>')
mentionsStatus(error, status) == Includes(error.message, <<"HTTP ", ToString(status)>>)


\* variant: the raw name of the error is used as the code
unknownError_rawName(error) ==
    Failure(IF error.message # <<>> THEN error.message ELSE <<"Error desconocido">>,
            error.name)

\* the last return of handleRequestError
unknownError(error) ==
    Failure(IF error.message # <<>> THEN error.message ELSE <<"Error desconocido">>,
            "UNKNOWN_ERROR")

handleRequestError(error) ==
    IF isAbort(error)
    THEN Failure(<<"Timeout: La peticion tardo demasiado tiempo">>, "TIMEOUT")
    ELSE IF isFailedToFetch(error)
    THEN Failure(<<"Error de conexion: No se puede conectar al servidor">>, "CONNECTION_ERROR")
    ELSE IF mentionsStatus(error, 404)
    THEN Failure(<<"Recurso no encontrado">>, "NOT_FOUND")
    ELSE IF mentionsStatus(error, 401)
    THEN Failure(<<"No autorizado: Verifique sus credenciales">>, "UNAUTHORIZED")
    ELSE IF mentionsStatus(error, 403)
    THEN Failure(<<"Acceso denegado: No tiene permisos suficientes">>, "FORBIDDEN")
    ELSE IF mentionsStatus(error, 500)
    THEN Failure(<<"Error interno del servidor">>, "SERVER_ERROR")
    ELSE unknownError(error)

(***************************************************************************)
(* Cache store: generateCacheKey, getCachedData, setCachedData.            *)
(***************************************************************************)
\* JSON.stringify(data || {}) as one token: "{}" for null and for an object
\* without a defined property, otherwise the properties in their order
stringify(data) == IF data.obj /\ data # EmptyObject THEN ToString(data) ELSE "{}"

generateCacheKey(endpoint, method, data) ==
    <<method, "_">> \o endpoint \o <<"_", stringify(data)>>


\* variant: an entry whose age equals CACHE_DURATION already counts as expired
cacheHit_expiresAtTTL(cache, cacheKey, t) ==
    cacheKey \in DOMAIN cache /\ ~(t - cache[cacheKey].timestamp >= CACHE_DURATION)

\* does getCachedData(cacheKey) return the stored data at instant t?
cacheHit(cache, cacheKey, t) ==
    cacheKey \in DOMAIN cache /\ ~(t - cache[cacheKey].timestamp > CACHE_DURATION)


\* variant: an expired entry is reported absent but stays in the map
getCachedData_keepsExpired(cache, cacheKey, t) == cache

\* the map after getCachedData(cacheKey): an expired entry is deleted
getCachedData(cache, cacheKey, t) ==
    IF cacheKey \in DOMAIN cache /\ t - cache[cacheKey].timestamp > CACHE_DURATION
    THEN [k \in DOMAIN cache \ {cacheKey} |-> cache[k]]
    ELSE cache


\* variant: the entry is stored without the instant of the store
setCachedData_noTimestamp(cache, cacheKey, data, t) ==
    (cacheKey :> [data |-> data, timestamp |-> 0]) @@ cache

\* variant: an entry that is already there is not replaced
setCachedData_firstWins(cache, cacheKey, data, t) ==
    IF cacheKey \in DOMAIN cache THEN cache
    ELSE (cacheKey :> [data |-> data, timestamp |-> t]) @@ cache

setCachedData(cache, cacheKey, data, t) ==
    (cacheKey :> [data |-> data, timestamp |-> t]) @@ cache

(***************************************************************************)
(* clearProjectsCache and clearProjectCache.                               *)
(***************************************************************************)
clearProjectsCache(cache) ==
    LET keysToDelete == {key \in DOMAIN cache : Includes(key, <<"/projects">>)}
    IN [k \in DOMAIN cache \ keysToDelete |-> cache[k]]


\* variant: only the keys of the one project are deleted
clearProjectCache_onlyProject(cache, projectId) ==
    LET keysToDelete == {key \in DOMAIN cache :
                            Includes(key, <<"/projects", "/", projectId>>)}
    IN [k \in DOMAIN cache \ keysToDelete |-> cache[k]]

\* variant: only the list entry and the entries of the one project are deleted
clearProjectCache_scopeOnly(cache, projectId) ==
    LET keysToDelete == {key \in DOMAIN cache :
                            \/ Includes(key, <<"/projects", "/", projectId>>)
                            \/ key = <<"GET", "_", "/projects", "_", "{}">>}
    IN [k \in DOMAIN cache \ keysToDelete |-> cache[k]]

clearProjectCache(cache, projectId) ==
    LET keysToDelete == {key \in DOMAIN cache :
                            \/ Includes(key, <<"/projects", "/", projectId>>)
                            \/ Includes(key, <<"/projects">>)}
    IN [k \in DOMAIN cache \ keysToDelete |-> cache[k]]

(***************************************************************************)
(* The SQL database: the tables Proyectos (with idUsuarioAdmin),           *)
(* ParticipantesProyecto and Usuarios (with the recovery token and its     *)
(* expiry), and GETDATE().  tokens and resets are what an observer counts: *)
(* the tokens generated, and for each token the UPDATEs that changed a     *)
(* password with it.                                                       *)
(***************************************************************************)
SqlNull == -1
\* idUsuario of the two registered users
Users == {1, 2}
\* correoUsuario of user 1, an address nobody registered, not an address
Correos == {"u1@x", "otro@x", "mal"}
\* Date.now() + 3600000
TokenLife == 3600000

Proyecto(admin, nombre) == [idUsuarioAdmin |-> admin, nombreProyecto |-> nombre]
Usuario(correo, contrasenia, token, expira) ==
    [correoUsuario |-> correo, contrasenia |-> contrasenia,
     tokenRecuperacion |-> token, tokenExpiracion |-> expira]

InitialDb ==
    [Proyectos |-> [id \in {"5", "7"} |->
                       IF id = "5" THEN Proyecto(2, "a") ELSE Proyecto(1, "a")],
     ParticipantesProyecto |-> {<<"5", 2>>, <<"7", 1>>, <<"7", 2>>},
     Usuarios |-> [u \in Users |->
                      Usuario(IF u = 1 THEN "u1@x" ELSE "u2@x", "h0", SqlNull, SqlNull)],
     clock |-> 0,
     tokens |-> 0,
     resets |-> [t \in 1..MaxTokens |-> 0]]

\* a request the server is handling: the handler, its position, the session
\* user, the parameters and body of the request, the locals, the response
NoRequest ==
    [handler |-> "none", pc |-> "idle", usuario |-> 0, id |-> "", name |-> "",
     correo |-> "", token |-> 0, expira |-> SqlNull, hash |-> "", status |-> 0,
     mensaje |-> ""]

(***************************************************************************)
(* State of one facade call: its arguments, the locals of makeRequest and  *)
(* makeRequestWithRetry, and what an observer of the call records          *)
(* (fetches = transport invocations, delays = the sleeps it made, errors = *)
(* what the catch block caught, attempt by attempt, kept while the loop    *)
(* runs and until the operation returns its failure; timers = the attempts *)
(* whose createTimeoutController timer was started and has not been seen   *)
(* to fire).                                                               *)
(***************************************************************************)
Null == NotAnObject

IdleCall ==
    [pc |-> "idle", op |-> "none", id |-> "", term |-> <<>>, filter |-> "",
     data |-> Null, endpoint |-> <<>>, method |-> "", body |-> Null,
     useCache |-> FALSE, skipRetry |-> FALSE, timeout |-> 0, cacheKey |-> <<>>,
     attempt |-> 0, lastError |-> NoError,
     fetches |-> 0, delays |-> <<>>, errors |-> <<>>,
     inner |-> NoResult, result |-> NoResult,
     threw |-> "none", before |-> <<>>, seq |-> 0, timers |-> {}]

\* the record of a call that starts now; before = the cache it finds, seq = its
\* rank among the calls issued
NewCall(op) == [IdleCall EXCEPT !.op = op, !.before = apiCache, !.seq = issued + 1]

Init ==
    /\ isOnline \in BOOLEAN
    /\ apiCache = <<>>
    /\ now = 0
    /\ calls = [c \in Slots |-> IdleCall]
    /\ issued = 0
    /\ db = InitialDb
    /\ srv = [r \in Requests |-> NoRequest]

\* a caller invokes a public operation on a free slot
Begin(c, op) ==
    /\ calls[c].pc = "idle"
    /\ issued < MaxIssued
    /\ issued' = issued + 1
    /\ UNCHANGED <<isOnline, now, db, srv>>

\* the operation returned without reaching makeRequest
ReturnEarly(c, call, result) ==
    /\ calls' = [calls EXCEPT ![c] = [call EXCEPT !.pc = "done", !.result = result]]
    /\ UNCHANGED apiCache


\* variant: the loop runs while attempt < retryAttempts
maxAttempts_oneFewer(skipRetry) == IF skipRetry THEN 1 ELSE retryAttempts - 1

maxAttempts(skipRetry) == IF skipRetry THEN 1 ELSE retryAttempts

\* variant: the cache is consulted before the connectivity check
makeRequest_cacheFirst(c, call, endpoint, method, data, useCache, skipRetry, tmo) ==
    LET cacheKey == generateCacheKey(endpoint, method, data)
        req == [call EXCEPT !.endpoint = endpoint, !.method = method, !.body = data,
                            !.useCache = useCache, !.skipRetry = skipRetry,
                            !.timeout = tmo]
    IN IF useCache /\ cacheHit(apiCache, cacheKey, now)
       THEN /\ calls' = [calls EXCEPT ![c] =
                    [req EXCEPT !.pc = "post", !.cacheKey = cacheKey,
                                !.inner = apiCache[cacheKey].data]]
            /\ UNCHANGED apiCache
       ELSE IF ~isOnline
       THEN /\ calls' = [calls EXCEPT ![c] =
                    [req EXCEPT !.pc = "post",
                                !.inner = Failure(<<"Sin conexion a internet">>, "OFFLINE")]]
            /\ apiCache' = IF useCache THEN getCachedData(apiCache, cacheKey, now)
                                       ELSE apiCache
       ELSE /\ calls' = [calls EXCEPT ![c] =
                    [req EXCEPT !.pc = "fetching", !.cacheKey = cacheKey,
                                !.attempt = 1, !.fetches = 1, !.timers = {1}]]
            /\ apiCache' = IF useCache THEN getCachedData(apiCache, cacheKey, now)
                                       ELSE apiCache

\* variant: the cache lookup runs before the connectivity check returns
makeRequest_offlineLookup(c, call, endpoint, method, data, useCache, skipRetry, tmo) ==
    LET cacheKey == generateCacheKey(endpoint, method, data)
        req == [call EXCEPT !.endpoint = endpoint, !.method = method, !.body = data,
                            !.useCache = useCache, !.skipRetry = skipRetry,
                            !.timeout = tmo]
    IN IF ~isOnline
       THEN /\ calls' = [calls EXCEPT ![c] =
                    [req EXCEPT !.pc = "post",
                                !.inner = Failure(<<"Sin conexion a internet">>, "OFFLINE")]]
            /\ apiCache' = IF useCache THEN getCachedData(apiCache, cacheKey, now)
                                       ELSE apiCache
       ELSE IF useCache /\ cacheHit(apiCache, cacheKey, now)
       THEN /\ calls' = [calls EXCEPT ![c] =
                    [req EXCEPT !.pc = "post", !.cacheKey = cacheKey,
                                !.inner = apiCache[cacheKey].data]]
            /\ UNCHANGED apiCache
       ELSE /\ calls' = [calls EXCEPT ![c] =
                    [req EXCEPT !.pc = "fetching", !.cacheKey = cacheKey,
                                !.attempt = 1, !.fetches = 1, !.timers = {1}]]
            /\ apiCache' = IF useCache THEN getCachedData(apiCache, cacheKey, now)
                                       ELSE apiCache

(***************************************************************************)
(* makeRequest up to its first await: the connectivity check, the cache    *)
(* lookup and the first transport attempt of makeRequestWithRetry.         *)
(***************************************************************************)
makeRequest(c, call, endpoint, method, data, useCache, skipRetry, tmo) ==
    LET cacheKey == generateCacheKey(endpoint, method, data)
        req == [call EXCEPT !.endpoint = endpoint, !.method = method, !.body = data,
                            !.useCache = useCache, !.skipRetry = skipRetry,
                            !.timeout = tmo]
    IN IF ~isOnline
       THEN /\ calls' = [calls EXCEPT ![c] =
                    [req EXCEPT !.pc = "post",
                                !.inner = Failure(<<"Sin conexion a internet">>, "OFFLINE")]]
            /\ UNCHANGED apiCache
       ELSE IF useCache /\ cacheHit(apiCache, cacheKey, now)
       THEN /\ calls' = [calls EXCEPT ![c] =
                    [req EXCEPT !.pc = "post", !.cacheKey = cacheKey,
                                !.inner = apiCache[cacheKey].data]]
            /\ UNCHANGED apiCache
       ELSE /\ calls' = [calls EXCEPT ![c] =
                    [req EXCEPT !.pc = "fetching", !.cacheKey = cacheKey,
                                !.attempt = 1, !.fetches = 1, !.timers = {1}]]
            /\ apiCache' = IF useCache THEN getCachedData(apiCache, cacheKey, now)
                                       ELSE apiCache

(***************************************************************************)
(* The public operations, up to their first await.                         *)
(***************************************************************************)

\* variant: the health check uses the cache like any other GET
checkHealth_cached(c) ==
    /\ Begin(c, "checkHealth")
    /\ makeRequest(c, NewCall("checkHealth"),
                   <<"/health">>, "GET", Null, TRUE, TRUE, healthTimeout)

\* variant: the health check goes through the retry loop like the others
checkHealth_retried(c) ==
    /\ Begin(c, "checkHealth")
    /\ makeRequest(c, NewCall("checkHealth"),
                   <<"/health">>, "GET", Null, FALSE, FALSE, healthTimeout)

checkHealth(c) ==
    /\ Begin(c, "checkHealth")
    /\ makeRequest(c, NewCall("checkHealth"),
                   <<"/health">>, "GET", Null, FALSE, TRUE, healthTimeout)

getAllProjects(c) ==
    /\ Begin(c, "getAllProjects")
    /\ makeRequest(c, NewCall("getAllProjects"),
                   <<"/projects">>, "GET", Null, TRUE, FALSE, timeout)

getProjectsByStatus(c, status) ==
    /\ Begin(c, "getProjectsByStatus")
    /\ makeRequest(c, [NewCall("getProjectsByStatus") EXCEPT !.filter = status],
                   <<"/projects">>, "GET", Null, TRUE, FALSE, timeout)


\* variant: the term is sent as typed, only the blank test trims it
searchProjects_untrimmed(c, searchTerm) ==
    /\ Begin(c, "searchProjects")
    /\ LET call == [NewCall("searchProjects") EXCEPT !.term = searchTerm]
       IN IF searchTerm = <<>> \/ Len(Trim(searchTerm)) = 0
          THEN ReturnEarly(c, call, Success(ArrayBody(<<>>), 200))
          ELSE makeRequest(c, call,
                           <<"/projects", "/search?q=">>
                               \o encodeURIComponent(searchTerm),
                           "GET", Null, TRUE, FALSE, timeout)

searchProjects(c, searchTerm) ==
    /\ Begin(c, "searchProjects")
    /\ LET call == [NewCall("searchProjects") EXCEPT !.term = searchTerm]
       IN IF searchTerm = <<>> \/ Len(Trim(searchTerm)) = 0
          THEN ReturnEarly(c, call, Success(ArrayBody(<<>>), 200))
          ELSE makeRequest(c, call,
                           <<"/projects", "/search?q=">>
                               \o encodeURIComponent(Trim(searchTerm)),
                           "GET", Null, TRUE, FALSE, timeout)

getProjectById(c, projectId) ==
    /\ Begin(c, "getProjectById")
    /\ LET call == [NewCall("getProjectById") EXCEPT !.id = projectId]
       IN IF projectId = ""
          THEN ReturnEarly(c, call,
                           Failure(<<"ID de proyecto requerido">>, "VALIDATION_ERROR"))
          ELSE makeRequest(c, call, <<"/projects", "/", projectId>>,
                           "GET", Null, TRUE, FALSE, timeout)


\* variant: the connectivity check comes before the validation
createProject_offlineFirst(c, projectData) ==
    /\ Begin(c, "createProject")
    /\ LET call == [NewCall("createProject") EXCEPT !.data = projectData]
           validation == validateProjectData(projectData, TRUE)
       IN IF isOnline /\ ~validation.isValid
          THEN ReturnEarly(c, call,
                           Failure(<<"Datos invalidos: ">> \o validation.errors,
                                   "VALIDATION_ERROR"))
          ELSE makeRequest(c, call, <<"/projects">>, "POST", projectData,
                           FALSE, FALSE, timeout)

createProject(c, projectData) ==
    /\ Begin(c, "createProject")
    /\ LET call == [NewCall("createProject") EXCEPT !.data = projectData]
           validation == validateProjectData(projectData, TRUE)
       IN IF ~validation.isValid
          THEN ReturnEarly(c, call,
                           Failure(<<"Datos invalidos: ">> \o validation.errors,
                                   "VALIDATION_ERROR"))
          ELSE makeRequest(c, call, <<"/projects">>, "POST", projectData,
                           FALSE, FALSE, timeout)

updateProject(c, projectId, projectData) ==
    /\ Begin(c, "updateProject")
    /\ LET call == [NewCall("updateProject") EXCEPT !.id = projectId,
                                    !.data = projectData]
           validation == validateProjectData(projectData, FALSE)
       IN IF projectId = ""
          THEN ReturnEarly(c, call,
                           Failure(<<"ID de proyecto requerido">>, "VALIDATION_ERROR"))
          ELSE IF ~validation.isValid
          THEN ReturnEarly(c, call,
                           Failure(<<"Datos invalidos: ">> \o validation.errors,
                                   "VALIDATION_ERROR"))
          ELSE makeRequest(c, call, <<"/projects", "/", projectId>>, "PUT", projectData,
                           FALSE, FALSE, timeout)


\* variant: the id is not checked before the request
deleteProject_noIdCheck(c, projectId) ==
    /\ Begin(c, "deleteProject")
    /\ makeRequest(c, [NewCall("deleteProject") EXCEPT !.id = projectId],
                   <<"/projects", "/", projectId>>, "DELETE", Null,
                   FALSE, FALSE, timeout)

deleteProject(c, projectId) ==
    /\ Begin(c, "deleteProject")
    /\ LET call == [NewCall("deleteProject") EXCEPT !.id = projectId]
       IN IF projectId = ""
          THEN ReturnEarly(c, call,
                           Failure(<<"ID de proyecto requerido">>, "VALIDATION_ERROR"))
          ELSE makeRequest(c, call, <<"/projects", "/", projectId>>, "DELETE", Null,
                           FALSE, FALSE, timeout)

(***************************************************************************)
(* makeRequestWithRetry: the end of one transport attempt (fetch and       *)
(* response.json()), the backoff sleep and the next attempt.               *)
(***************************************************************************)

\* variant: the same delay before every retry
backoff_constant(attempt) == retryDelay

\* the delay before the attempt that follows a failed attempt
backoff(attempt) == retryDelay * attempt


\* variant: the try block does not return, the loop goes on to the next attempt
attemptSucceeded_noReturn(c, call, o) ==
    LET result == Success(o.body, o.status) IN
    /\ apiCache' = IF call.useCache /\ call.method = "GET"
                   THEN setCachedData(apiCache, call.cacheKey, result, now)
                   ELSE apiCache
    /\ IF call.attempt < retryAttempts
       THEN calls' = [calls EXCEPT ![c] =
                [call EXCEPT !.attempt = @ + 1, !.fetches = @ + 1]]
       ELSE calls' = [calls EXCEPT ![c] =
                [call EXCEPT !.pc = "post", !.inner = result,
                             !.attempt = 0, !.lastError = NoError]]

\* the try block after a 2xx response whose body parsed: build, store, return
attemptSucceeded(c, call, o) ==
    LET result == Success(o.body, o.status) IN
    /\ apiCache' = IF call.useCache /\ call.method = "GET"
                   THEN setCachedData(apiCache, call.cacheKey, result, now)
                   ELSE apiCache
    /\ calls' = [calls EXCEPT ![c] =
            [call EXCEPT !.pc = "post", !.inner = result,
                         !.attempt = 0, !.lastError = NoError, !.errors = <<>>]]


\* variant: lastError keeps the first error the loop caught
caught_keepsFirst(call, o) == IF call.lastError # NoError THEN call.lastError ELSE o.error

\* lastError = error
caught(call, o) == o.error

\* the catch block, and the return after the loop when it was the last attempt
attemptFailed(c, call, o) ==
    /\ UNCHANGED apiCache
    /\ IF call.attempt < maxAttempts(call.skipRetry)
       THEN calls' = [calls EXCEPT ![c] =
                [call EXCEPT !.pc = "sleeping", !.lastError = caught(call, o),
                             !.errors = Append(@, o.error),
                             !.delays = Append(@, backoff(call.attempt))]]
       ELSE calls' = [calls EXCEPT ![c] =
                [call EXCEPT !.pc = "post", !.attempt = 0, !.lastError = NoError,
                             !.errors = Append(@, o.error),
                             !.inner = handleRequestError(caught(call, o))]]


\* variant: a failed attempt marks the client as offline
makeRequestWithRetry_marksOffline(c, o) ==
    /\ calls[c].pc = "fetching"
    /\ IF o.ok THEN attemptSucceeded(c, calls[c], o)
               ELSE attemptFailed(c, calls[c], o)
    /\ isOnline' = (isOnline /\ o.ok)
    /\ UNCHANGED <<now, issued, db, srv>>

\* the attempt of call c ends with outcome o
makeRequestWithRetry(c, o) ==
    /\ calls[c].pc = "fetching"
    /\ IF o.ok THEN attemptSucceeded(c, calls[c], o)
               ELSE attemptFailed(c, calls[c], o)
    /\ UNCHANGED <<isOnline, now, issued, db, srv>>


\* variant: the next attempt also starts while the previous one is in flight
nextAttempt_overlapping(c) ==
    LET call == calls[c] IN
    /\ call.pc \in {"sleeping", "fetching"}
    /\ call.attempt < maxAttempts(call.skipRetry)
    /\ calls' = [calls EXCEPT ![c] =
            [call EXCEPT !.pc = "fetching", !.attempt = @ + 1, !.fetches = @ + 1,
                             !.timers = @ \cup {call.attempt + 1}]]
    /\ UNCHANGED <<isOnline, apiCache, now, issued, db, srv>>

\* variant: the loop looks at isOnline again before each retry
nextAttempt_checksOnline(c) ==
    LET call == calls[c] IN
    /\ call.pc = "sleeping"
    /\ IF isOnline
       THEN calls' = [calls EXCEPT ![c] =
                [call EXCEPT !.pc = "fetching", !.attempt = @ + 1, !.fetches = @ + 1,
                             !.timers = @ \cup {call.attempt + 1}]]
       ELSE calls' = [calls EXCEPT ![c] =
                [call EXCEPT !.pc = "post", !.attempt = 0, !.lastError = NoError,
                             !.inner = Failure(<<"Sin conexion a internet">>, "OFFLINE")]]
    /\ UNCHANGED <<isOnline, apiCache, now, issued, db, srv>>

\* sleep(retryDelay * attempt) resolves and the loop starts the next attempt
nextAttempt(c) ==
    LET call == calls[c] IN
    /\ call.pc = "sleeping"
    /\ calls' = [calls EXCEPT ![c] =
            [call EXCEPT !.pc = "fetching", !.attempt = @ + 1, !.fetches = @ + 1,
                             !.timers = @ \cup {call.attempt + 1}]]
    /\ UNCHANGED <<isOnline, apiCache, now, issued, db, srv>>

(***************************************************************************)
(* The code of each public operation after `await this.makeRequest(...)`.  *)
(***************************************************************************)
\* Array.prototype.filter(project => project.status === status)
RECURSIVE filterByStatus(_, _)
filterByStatus(items, status) ==
    IF items = <<>> THEN <<>>
    ELSE (IF Head(items).status = status THEN <<Head(items)>> ELSE <<>>)
         \o filterByStatus(Tail(items), status)

\* variant: the cache is cleared whatever the result
evicts_always(result) == TRUE

\* if (result.success): the guard of the cache clearing after a mutation
evicts(result) == result.success

resume(c) ==
    LET call == calls[c]
        done == [call EXCEPT !.pc = "done", !.result = call.inner, !.errors = <<>>]
    IN
    /\ call.pc = "post"
    /\ CASE call.op = "getProjectsByStatus" ->
              /\ UNCHANGED apiCache
              /\ IF ~call.inner.success
                 THEN calls' = [calls EXCEPT ![c] = done]
                 ELSE IF call.inner.data.kind = "array"
                 THEN calls' = [calls EXCEPT ![c] =
                          [done EXCEPT !.result =
                              Success(ArrayBody(filterByStatus(call.inner.data.items,
                                                               call.filter)), 200)]]
                 \* allProjects.data.filter is not a function
                 ELSE calls' = [calls EXCEPT ![c] =
                          [call EXCEPT !.pc = "done", !.threw = "TypeError",
                                       !.errors = <<>>]]
         [] call.op = "createProject" ->
              /\ apiCache' = IF evicts(call.inner) THEN clearProjectsCache(apiCache)
                                                    ELSE apiCache
              /\ calls' = [calls EXCEPT ![c] = done]
         [] call.op \in {"updateProject", "deleteProject"} ->
              /\ apiCache' = IF evicts(call.inner)
                             THEN clearProjectCache(apiCache, call.id)
                             ELSE apiCache
              /\ calls' = [calls EXCEPT ![c] = done]
         [] OTHER ->
              /\ UNCHANGED apiCache
              /\ calls' = [calls EXCEPT ![c] = done]
    /\ UNCHANGED <<isOnline, now, issued, db, srv>>

\* the caller has taken the result; the slot is free again
collect(c) ==
    /\ calls[c].pc = "done"
    /\ calls' = [calls EXCEPT ![c] = IdleCall]
    /\ UNCHANGED <<isOnline, apiCache, now, issued, db, srv>>

(***************************************************************************)
(* setupNetworkListeners: the handlers of the browser's events.            *)
(***************************************************************************)
online ==
    /\ ~isOnline
    /\ isOnline' = TRUE
    /\ UNCHANGED <<apiCache, now, calls, issued, db, srv>>

offline ==
    /\ isOnline
    /\ isOnline' = FALSE
    /\ UNCHANGED <<apiCache, now, calls, issued, db, srv>>

(***************************************************************************)
(* Time: Date.now() advances by a cache lifetime, or by one millisecond    *)
(* more.  The timers of createTimeoutController and sleep are events: the  *)
(* AbortError outcome of an attempt and the step nextAttempt.              *)
(***************************************************************************)
elapse(d) ==
    /\ now + d <= MaxTime
    /\ now' = now + d
    /\ UNCHANGED <<isOnline, apiCache, calls, issued, db, srv>>

Next ==
    \/ \E c \in Calls : checkHealth(c)
    \/ \E c \in Calls : getAllProjects(c)
    \/ \E c \in Calls, status \in StatusFilters : getProjectsByStatus(c, status)
    \/ \E c \in Calls, searchTerm \in SearchTerms : searchProjects(c, searchTerm)
    \/ \E c \in Calls, projectId \in ProjectIds : getProjectById(c, projectId)
    \/ \E c \in Calls, projectData \in ProjectDatas : createProject(c, projectData)
    \/ \E c \in Calls, projectId \in ProjectIds, projectData \in ProjectDatas :
           updateProject(c, projectId, projectData)
    \/ \E c \in Calls, projectId \in ProjectIds : deleteProject(c, projectId)
    \/ \E c \in Calls, o \in CommonOutcomes : makeRequestWithRetry(c, o)
    \/ \E c \in Calls : nextAttempt(c)
    \/ \E c \in Calls : resume(c)
    \/ \E c \in Calls : collect(c)
    \/ online
    \/ offline
    \/ \E d \in {CACHE_DURATION, CACHE_DURATION + 1} : elapse(d)

Spec == Init /\ [][Next]_vars

(***************************************************************************)
(* One call of any public operation, followed from its issue to its        *)
(* return, with every outcome of every transport attempt.                  *)
(***************************************************************************)
NextCall ==
    \/ \E c \in Calls : checkHealth(c)
    \/ \E c \in Calls : getAllProjects(c)
    \/ \E c \in Calls, status \in StatusFilters : getProjectsByStatus(c, status)
    \/ \E c \in Calls, searchTerm \in SearchTerms : searchProjects(c, searchTerm)
    \/ \E c \in Calls, projectId \in ProjectIds : getProjectById(c, projectId)
    \/ \E c \in Calls, projectData \in ProjectDatas : createProject(c, projectData)
    \/ \E c \in Calls, projectId \in ProjectIds, projectData \in ProjectDatas :
           updateProject(c, projectId, projectData)
    \/ \E c \in Calls, projectId \in ProjectIds : deleteProject(c, projectId)
    \/ \E c \in Calls, o \in Outcomes : makeRequestWithRetry(c, o)
    \/ \E c \in Calls : nextAttempt(c)
    \/ \E c \in Calls : resume(c)
    \/ online
    \/ offline

SpecCall == Init /\ [][NextCall]_vars

(***************************************************************************)
(* The same single call when every pending step eventually happens: an     *)
(* attempt in flight ends (fetch settles, or the timer of                  *)
(* createTimeoutController aborts it), the timer of sleep fires, and the   *)
(* continuation after `await this.makeRequest(...)` runs.                  *)
(***************************************************************************)
Fairness ==
    /\ WF_vars(\E c \in Calls, o \in Outcomes : makeRequestWithRetry(c, o))
    /\ WF_vars(\E c \in Calls : nextAttempt(c))
    /\ WF_vars(\E c \in Calls : resume(c))

SpecCallFair == SpecCall /\ Fairness

(***************************************************************************)
(* Two callers that do not await each other: list reads and deletions of   *)
(* project 7 that can be pending at the same time.                         *)
(***************************************************************************)
NextRace ==
    \/ \E c \in Slots : getAllProjects(c)
    \/ \E c \in Slots : deleteProject(c, "7")
    \/ \E c \in Slots, o \in CommonOutcomes : makeRequestWithRetry(c, o)
    \/ \E c \in Slots : nextAttempt(c)
    \/ \E c \in Slots : resume(c)
    \/ \E c \in Slots : collect(c)

SpecRace == Init /\ [][NextRace]_vars

(***************************************************************************)
(* makeRequest called directly, as the public method it is, with methods,  *)
(* endpoints and bodies that vary one at a time.                           *)
(***************************************************************************)
KeyMethods == {"GET", "POST"}
KeyEndpoints == {<<"/projects">>, <<"/projects", "/", "7">>}
KeyBodies == {Null, EmptyObject, StatusOnly, ValidData, Reordered(ValidData)}

rawRequest(c, endpoint, method, data) ==
    /\ Begin(c, "makeRequest")
    /\ makeRequest(c, NewCall("makeRequest"), endpoint, method, data,
                   method = "GET", FALSE, timeout)

NextKey ==
    \/ \E c \in Calls, endpoint \in KeyEndpoints, method \in KeyMethods,
             data \in KeyBodies : rawRequest(c, endpoint, method, data)
    \/ \E c \in Calls, o \in CommonOutcomes : makeRequestWithRetry(c, o)
    \/ \E c \in Calls : nextAttempt(c)
    \/ \E c \in Calls : resume(c)

SpecKey == Init /\ [][NextKey]_vars

(***************************************************************************)
(* createProject and updateProject on project data that varies each        *)
(* validated property, followed to the end of the call.                    *)
(***************************************************************************)
NextValidate ==
    \/ \E c \in Calls, projectData \in FieldDatas : createProject(c, projectData)
    \/ \E c \in Calls, projectId \in ProjectIds, projectData \in FieldDatas :
           updateProject(c, projectId, projectData)
    \/ \E c \in Calls, o \in CommonOutcomes : makeRequestWithRetry(c, o)
    \/ \E c \in Calls : nextAttempt(c)
    \/ \E c \in Calls : resume(c)

SpecValidate == Init /\ [][NextValidate]_vars

(***************************************************************************)
(* The Express router of backend/routes/api.js, mounted at /api: its       *)
(* routes in registration order, the dispatch of a request to the first    *)
(* route that matches, and the answers each handler can send.  The request *)
(* is authenticated, so isAuthenticated passes it on to the handler.       *)
(***************************************************************************)
\* a registered route: its path as segments, line = where it is registered
Route(method, path, line) == [method |-> method, path |-> path, line |-> line]
NoRoute == Route("", <<>>, 0)

Routes ==
    <<Route("GET", <<"health">>, 19),
      Route("GET", <<"projects">>, 44),
      Route("GET", <<"projects", ":id">>, 120),
      Route("GET", <<"projects">>, 217),
      Route("GET", <<"projects", "search">>, 225),
      Route("POST", <<"projects">>, 314),
      Route("PUT", <<"projects", ":id">>, 414),
      Route("DELETE", <<"projects", ":id">>, 517)>>

\* the path segments of a request for endpoint; the query string is not part
\* of the path
RECURSIVE Segments(_)
Segments(endpoint) ==
    IF endpoint = <<>> THEN <<>>
    ELSE CASE Head(endpoint) = "/health" -> <<"health">> \o Segments(Tail(endpoint))
           [] Head(endpoint) = "/projects" -> <<"projects">> \o Segments(Tail(endpoint))
           [] Head(endpoint) = "/search?q=" -> <<"search">>
           [] Head(endpoint) = "/" /\ Len(endpoint) >= 2 ->
                  <<endpoint[2]>> \o Segments(Tail(Tail(endpoint)))
           [] OTHER -> <<>>

\* a route path matches segment by segment; :id matches any one segment
matches(path, segments) ==
    /\ Len(path) = Len(segments)
    /\ \A i \in 1..Len(path) : path[i] = ":id" \/ path[i] = segments[i]

\* the first registered route of that method whose path matches
dispatch(method, segments) ==
    LET hits == {i \in 1..Len(Routes) :
                     Routes[i].method = method /\ matches(Routes[i].path, segments)}
    IN IF hits = {} THEN NoRoute
       ELSE Routes[CHOOSE i \in hits : \A j \in hits : i <= j]

\* the answers the handler of a route can send; every one is a JSON object
respond(route) ==
    CASE route.line = 19 -> {OkOutcome(ObjectBody), HttpOutcome(500)}
      [] route.line = 44 -> {OkOutcome(ObjectBody), HttpOutcome(500)}
      [] route.line = 120 ->
             {HttpOutcome(403), HttpOutcome(404), OkOutcome(ObjectBody), HttpOutcome(500)}
      [] route.line = 217 -> {ErrorOutcome(AbortError)}
      [] route.line = 225 -> {OkOutcome(ObjectBody), HttpOutcome(500)}
      [] route.line = 314 ->
             {HttpOutcome(400), [OkOutcome(ObjectBody) EXCEPT !.status = 201],
              HttpOutcome(500)}
      [] route.line = 414 -> {HttpOutcome(403), OkOutcome(ObjectBody), HttpOutcome(500)}
      [] route.line = 517 -> {HttpOutcome(403), OkOutcome(ObjectBody), HttpOutcome(500)}
      [] OTHER -> {HttpOutcome(404)}

\* the router answers the attempt of call c that is in flight
serve(c) ==
    /\ calls[c].pc = "fetching"
    /\ \E o \in respond(dispatch(calls[c].method, Segments(calls[c].endpoint))) :
           makeRequestWithRetry(c, o)

(***************************************************************************)
(* The read operations of the client against this router.                  *)
(***************************************************************************)
NextServer ==
    \/ \E c \in Calls : checkHealth(c)
    \/ \E c \in Calls : getAllProjects(c)
    \/ \E c \in Calls, searchTerm \in SearchTerms : searchProjects(c, searchTerm)
    \/ \E c \in Calls, projectId \in ProjectIds : getProjectById(c, projectId)
    \/ \E c \in Calls : serve(c)
    \/ \E c \in Calls : nextAttempt(c)
    \/ \E c \in Calls : resume(c)
    \/ \E c \in Calls : collect(c)

SpecServer == Init /\ [][NextServer]_vars

(***************************************************************************)
(* PUT /projects/:id and DELETE /projects/:id.  Each awaited query is one  *)
(* step, so the requests the server is handling interleave between their   *)
(* queries.  The session user is the one isAuthenticated let through.      *)
(***************************************************************************)
clientVars == <<isOnline, apiCache, now, calls, issued>>

\* the names a PUT body can carry
Nombres == {"a", "b"}
\* the ids of the projects of InitialDb
ProyectoIds == {"5", "7"}

\* the response has been sent
Responds(req, status) == [req EXCEPT !.pc = "done", !.status = status]


\* variant: the check only looks for the project
isAdmin_anyUser(database, id, u) == id \in DOMAIN database.Proyectos

\* SELECT 1 FROM Proyectos WHERE idProyecto = @idProyecto AND
\* idUsuarioAdmin = @idUsuario returns a row
isAdmin(database, id, u) ==
    id \in DOMAIN database.Proyectos /\ database.Proyectos[id].idUsuarioAdmin = u

\* router.put('/projects/:id') starts handling a request of session user u
put_projects_id(r, u, id, name) ==
    /\ srv[r].pc = "idle"
    /\ srv' = [srv EXCEPT ![r] = [NoRequest EXCEPT !.handler = "PUT", !.pc = "adminCheck",
                                                   !.usuario = u, !.id = id,
                                                   !.name = name]]
    /\ UNCHANGED <<clientVars, db>>

\* router.delete('/projects/:id') starts handling a request of session user u
delete_projects_id(r, u, id) ==
    /\ srv[r].pc = "idle"
    /\ srv' = [srv EXCEPT ![r] = [NoRequest EXCEPT !.handler = "DELETE",
                                                   !.pc = "adminCheck",
                                                   !.usuario = u, !.id = id]]
    /\ UNCHANGED <<clientVars, db>>

\* the admin check of either handler: 403 when it returns no row
adminCheck(r) ==
    /\ srv[r].pc = "adminCheck"
    /\ srv' = [srv EXCEPT ![r] =
                  IF isAdmin(db, srv[r].id, srv[r].usuario)
                  THEN [srv[r] EXCEPT !.pc = "write"]
                  ELSE Responds(srv[r], 403)]
    /\ UNCHANGED <<clientVars, db>>

\* UPDATE Proyectos SET ... WHERE idProyecto = @idProyecto
updateProyecto(r) ==
    /\ srv[r].handler = "PUT" /\ srv[r].pc = "write"
    /\ db' = [db EXCEPT !.Proyectos =
                 [id \in DOMAIN @ |->
                     IF id = srv[r].id THEN [@[id] EXCEPT !.nombreProyecto = srv[r].name]
                                       ELSE @[id]]]
    /\ srv' = [srv EXCEPT ![r].pc = "read"]
    /\ UNCHANGED clientVars

\* the two SELECTs after the UPDATE, and the answer; project.status throws
\* when the project is no longer there
selectUpdated(r) ==
    /\ srv[r].handler = "PUT" /\ srv[r].pc = "read"
    /\ srv' = [srv EXCEPT ![r] =
                  Responds(srv[r], IF srv[r].id \in DOMAIN db.Proyectos THEN 200 ELSE 500)]
    /\ UNCHANGED <<clientVars, db>>

\* DELETE FROM Proyectos WHERE idProyecto = @idProyecto, cascading to the
\* participants, and the answer
deleteProyecto(r) ==
    /\ srv[r].handler = "DELETE" /\ srv[r].pc = "write"
    /\ db' = [db EXCEPT
                 !.Proyectos = [id \in DOMAIN @ \ {srv[r].id} |-> @[id]],
                 !.ParticipantesProyecto = {p \in @ : p[1] # srv[r].id}]
    /\ srv' = [srv EXCEPT ![r] = Responds(srv[r], 200)]
    /\ UNCHANGED clientVars

\* sql.connect or a query rejects: the catch block answers 500
queryFails(r) ==
    /\ srv[r].handler \in {"PUT", "DELETE"}
    /\ srv[r].pc \in {"adminCheck", "write", "read"}
    /\ srv' = [srv EXCEPT ![r] = Responds(srv[r], 500)]
    /\ UNCHANGED <<clientVars, db>>

\* the handler is over
finish(r) ==
    /\ srv[r].pc = "done"
    /\ srv' = [srv EXCEPT ![r] = NoRequest]
    /\ UNCHANGED <<clientVars, db>>

NextAdmin ==
    \/ \E r \in Requests, u \in Users, id \in ProyectoIds, name \in Nombres :
           put_projects_id(r, u, id, name)
    \/ \E r \in Requests, u \in Users, id \in ProyectoIds : delete_projects_id(r, u, id)
    \/ \E r \in Requests : adminCheck(r)
    \/ \E r \in Requests : updateProyecto(r)
    \/ \E r \in Requests : selectUpdated(r)
    \/ \E r \in Requests : deleteProyecto(r)
    \/ \E r \in Requests : queryFails(r)
    \/ \E r \in Requests : finish(r)

SpecAdmin == Init /\ [][NextAdmin]_vars

(***************************************************************************)
(* Password recovery of the auth controller: sendRecoverEmail stores a     *)
(* fresh token with its expiry, postResetPassword looks the token up and   *)
(* then updates the password.  Each awaited query is one step.  Date.now() *)
(* of the server and GETDATE() of the database are one clock.              *)
(***************************************************************************)
\* the response has been sent, with req.session.mensaje
Redirects(req, mensaje) == [req EXCEPT !.pc = "done", !.status = 302, !.mensaje = mensaje]

\* the passwords a reset form can carry: one that fails validateResetPassword,
\* one that passes
Contrasenas == {"mala", "Nueva1!"}
\* bcrypt.hashSync(contrasena, 10)
hashSync(contrasena) == "h(" \o contrasena \o ")"

\* the users whose row the WHERE clause of the lookup selects
validRows(database, token) ==
    {u \in Users : /\ database.Usuarios[u].tokenRecuperacion = token
                   /\ database.Usuarios[u].tokenExpiracion > database.clock}

\* the users whose row the WHERE clause of the UPDATE selects
tokenRows(database, token) ==
    {u \in Users : database.Usuarios[u].tokenRecuperacion = token}

\* exports.sendRecoverEmail starts: validation, then a fresh token and its expiry
sendRecoverEmail(r, correo) ==
    /\ srv[r].pc = "idle"
    /\ LET req == [NoRequest EXCEPT !.handler = "sendRecoverEmail", !.correo = correo]
       IN IF correo = "mal"
          THEN /\ srv' = [srv EXCEPT ![r] = Redirects(req, "correo no valido")]
               /\ UNCHANGED db
          ELSE /\ db.tokens < MaxTokens
               /\ db' = [db EXCEPT !.tokens = @ + 1]
               /\ srv' = [srv EXCEPT ![r] =
                             [req EXCEPT !.pc = "select", !.token = db.tokens + 1,
                                         !.expira = db.clock + TokenLife]]
    /\ UNCHANGED clientVars

\* SELECT * FROM Usuarios WHERE correoUsuario = @correo
selectUsuario(r) ==
    /\ srv[r].handler = "sendRecoverEmail" /\ srv[r].pc = "select"
    /\ LET found == {u \in Users : db.Usuarios[u].correoUsuario = srv[r].correo}
       IN srv' = [srv EXCEPT ![r] =
                     IF found = {}
                     THEN Redirects(srv[r], "si el correo esta registrado")
                     ELSE [srv[r] EXCEPT !.pc = "update",
                                         !.usuario = CHOOSE u \in found : TRUE]]
    /\ UNCHANGED <<clientVars, db>>

\* UPDATE Usuarios SET tokenRecuperacion, tokenExpiracion WHERE idUsuario = @id
updateToken(r) ==
    /\ srv[r].handler = "sendRecoverEmail" /\ srv[r].pc = "update"
    /\ db' = [db EXCEPT !.Usuarios[srv[r].usuario] =
                 [@ EXCEPT !.tokenRecuperacion = srv[r].token,
                           !.tokenExpiracion = srv[r].expira]]
    /\ srv' = [srv EXCEPT ![r].pc = "mail"]
    /\ UNCHANGED clientVars

\* transporter.sendMail resolves or rejects
sendMail(r, sent) ==
    /\ srv[r].handler = "sendRecoverEmail" /\ srv[r].pc = "mail"
    /\ srv' = [srv EXCEPT ![r] =
                  IF sent THEN Redirects(srv[r], "correo enviado")
                          ELSE [Redirects(srv[r], "error") EXCEPT !.status = 500]]
    /\ UNCHANGED <<clientVars, db>>


\* variant: the UPDATE leaves the token and its expiry in the row
resetRow_keepsToken(row, hash) == [row EXCEPT !.contrasenia = hash]

\* SET contrasenia = @hash, tokenRecuperacion = NULL, tokenExpiracion = NULL
resetRow(row, hash) ==
    [row EXCEPT !.contrasenia = hash, !.tokenRecuperacion = SqlNull,
                !.tokenExpiracion = SqlNull]

\* exports.postResetPassword starts: validation, then the hash
postResetPassword(r, token, contrasena) ==
    /\ srv[r].pc = "idle"
    /\ LET req == [NoRequest EXCEPT !.handler = "postResetPassword", !.token = token]
       IN srv' = [srv EXCEPT ![r] =
                     IF contrasena = "mala"
                     THEN [req EXCEPT !.pc = "done", !.status = 200,
                                      !.mensaje = "contrasena no valida"]
                     ELSE [req EXCEPT !.pc = "select", !.hash = hashSync(contrasena)]]
    /\ UNCHANGED <<clientVars, db>>

\* SELECT * FROM Usuarios WHERE tokenRecuperacion = @tokenRecuperacion AND
\* tokenExpiracion > GETDATE()
selectToken(r) ==
    /\ srv[r].handler = "postResetPassword" /\ srv[r].pc = "select"
    /\ srv' = [srv EXCEPT ![r] =
                  IF validRows(db, srv[r].token) = {}
                  THEN Redirects(srv[r], "invalido o expirado")
                  ELSE [srv[r] EXCEPT !.pc = "update"]]
    /\ UNCHANGED <<clientVars, db>>

\* UPDATE Usuarios SET ... WHERE tokenRecuperacion = @tokenRecuperacion
updatePassword(r) ==
    /\ srv[r].handler = "postResetPassword" /\ srv[r].pc = "update"
    /\ LET rows == tokenRows(db, srv[r].token)
       IN db' = [db EXCEPT
                    !.Usuarios = [u \in Users |->
                                     IF u \in rows THEN resetRow(@[u], srv[r].hash)
                                                   ELSE @[u]],
                    !.resets = [t \in DOMAIN @ |->
                                   IF t = srv[r].token /\ rows # {} THEN @[t] + 1
                                                                    ELSE @[t]]]
    /\ srv' = [srv EXCEPT ![r] = Redirects(srv[r], "actualizada")]
    /\ UNCHANGED clientVars

\* sql.connect or a query rejects: the catch block passes the error on
authQueryFails(r) ==
    /\ srv[r].handler \in {"sendRecoverEmail", "postResetPassword"}
    /\ srv[r].pc \in {"select", "update"}
    /\ srv' = [srv EXCEPT ![r] = [Redirects(srv[r], "error") EXCEPT !.status = 500]]
    /\ UNCHANGED <<clientVars, db>>

\* the clock advances by a token lifetime, or by one millisecond less
tick(d) ==
    /\ db.clock + d <= MaxClock
    /\ db' = [db EXCEPT !.clock = @ + d]
    /\ UNCHANGED <<clientVars, srv>>

NextRecover ==
    \/ \E r \in Requests, correo \in Correos : sendRecoverEmail(r, correo)
    \/ \E r \in Requests : selectUsuario(r)
    \/ \E r \in Requests : updateToken(r)
    \/ \E r \in Requests, sent \in BOOLEAN : sendMail(r, sent)
    \/ \E r \in Requests, token \in 0..MaxTokens, contrasena \in Contrasenas :
           postResetPassword(r, token, contrasena)
    \/ \E r \in Requests : selectToken(r)
    \/ \E r \in Requests : updatePassword(r)
    \/ \E r \in Requests : authQueryFails(r)
    \/ \E r \in Requests : finish(r)
    \/ \E d \in {TokenLife - 1, TokenLife} : tick(d)

SpecRecover == Init /\ [][NextRecover]_vars

(***************************************************************************)
(* The timers of createTimeoutController as events of their own: the timer *)
(* started for attempt k of call c fires at some moment, during that       *)
(* attempt or later (it is never cleared), and aborts the controller of    *)
(* that attempt.  Two list reads that do not await each other.             *)
(***************************************************************************)

\* variant: one controller for the whole call, so any timer aborts the attempt
\* in flight
aborts_sharedController(call, k) == call.pc = "fetching"

\* controller.abort() of attempt k rejects a fetch: the one of attempt k, if
\* it is still in flight
aborts(call, k) == call.pc = "fetching" /\ call.attempt = k

\* setTimeout(() => controller.abort(), timeout) of attempt k of call c fires
timerFires(c, k) ==
    LET call == [calls[c] EXCEPT !.timers = @ \ {k}] IN
    /\ k \in calls[c].timers
    /\ IF aborts(calls[c], k)
       THEN attemptFailed(c, call, ErrorOutcome(AbortError))
       ELSE /\ calls' = [calls EXCEPT ![c] = call]
            /\ UNCHANGED apiCache
    /\ UNCHANGED <<isOnline, now, issued, db, srv>>

\* what the server answers in time
TimelyOutcomes == {OkOutcome(ObjectBody), HttpOutcome(500)}

NextTimers ==
    \/ \E c \in Slots : getAllProjects(c)
    \/ \E c \in Slots, o \in TimelyOutcomes : makeRequestWithRetry(c, o)
    \/ \E c \in Slots : nextAttempt(c)
    \/ \E c \in Slots : resume(c)
    \/ \E c \in Slots, k \in 1..retryAttempts : timerFires(c, k)

SpecTimers == Init /\ [][NextTimers]_vars

(***************************************************************************)
(* Vocabulary of the properties.                                           *)
(***************************************************************************)
\* the cache keys of the project list and of one project
ListKey == <<"GET", "_", "/projects", "_", "{}">>
ProjectKey(id) == <<"GET", "_", "/projects", "/", id, "_", "{}">>

\* this step is call c being issued
Issued(c) == calls[c].pc = "idle" /\ calls'[c].pc # "idle"
\* this step is call c being issued and entering makeRequest
Requested(c) == Issued(c) /\ calls'[c].pc # "done"
\* this step is the operation of call c returning to its caller
Returns(c) == calls[c].pc = "post" /\ calls'[c].pc = "done"

Reads == {"getAllProjects", "getProjectById", "searchProjects"}
Mutations == {"createProject", "updateProject", "deleteProject"}

HasCode(envelope, code) == ~envelope.success /\ envelope.code = code

\* C1: a call issued while isOnline is false that reaches makeRequest invokes
\* fetch zero times and returns {success:false, code:OFFLINE}.
C1_OfflineFailsFast ==
    [][\A c \in Calls :
          /\ (Requested(c) /\ ~isOnline) =>
                /\ calls'[c].pc = "post"
                /\ calls'[c].fetches = 0
                /\ HasCode(calls'[c].inner, "OFFLINE")
          /\ (Returns(c) /\ HasCode(calls[c].inner, "OFFLINE")) =>
                /\ calls'[c].result = calls[c].inner
                /\ calls'[c].fetches = 0
                /\ calls'[c].threw = "none"]_vars

\* a list read made offline returned OFFLINE although a fresh entry is cached
C1_Witness ==
    \E c \in Calls :
        /\ calls[c].pc = "done" /\ calls[c].op = "getAllProjects"
        /\ HasCode(calls[c].result, "OFFLINE") /\ calls[c].fetches = 0
        /\ ~isOnline
        /\ ListKey \in DOMAIN apiCache
        /\ now - apiCache[ListKey].timestamp <= CACHE_DURATION

\* C2: a cacheable GET issued online whose key has an entry of age at most
\* CACHE_DURATION returns that stored envelope, invokes fetch zero times and
\* leaves the cache as it is.
C2_FreshEntryServedFromCache ==
    [][\A c \in Calls :
          /\ LET key == <<"GET", "_">> \o calls'[c].endpoint \o <<"_", "{}">> IN
             (/\ Requested(c) /\ isOnline
              /\ calls'[c].method = "GET" /\ calls'[c].useCache
              /\ key \in DOMAIN apiCache
              /\ now - apiCache[key].timestamp <= CACHE_DURATION) =>
                /\ calls'[c].pc = "post"
                /\ calls'[c].inner = apiCache[key].data
                /\ calls'[c].fetches = 0
                /\ apiCache' = apiCache
          /\ (Returns(c) /\ calls[c].op \in Reads) =>
                /\ calls'[c].result = calls[c].inner
                /\ calls'[c].fetches = calls[c].fetches]_vars

\* getAllProjects was answered from an entry whose age is exactly CACHE_DURATION
C2_Witness ==
    \E c \in Calls :
        /\ calls[c].pc = "done" /\ calls[c].op = "getAllProjects"
        /\ calls[c].fetches = 0 /\ calls[c].result.success
        /\ ListKey \in DOMAIN apiCache
        /\ apiCache[ListKey].data = calls[c].result
        /\ now - apiCache[ListKey].timestamp = CACHE_DURATION

\* the invalidation scope of a mutation: the list, and for update and delete
\* of project N also the entry of N
InScope(call, key) ==
    \/ key = ListKey
    \/ call.op \in {"updateProject", "deleteProject"} /\ key = ProjectKey(call.id)

\* C3: when create, update or delete returns success, no entry that was cached
\* when the call was issued and lies in its invalidation scope is still cached;
\* and a list or project read issued online whose key is not cached invokes
\* fetch.
C3_SuccessfulMutationEvictsScope ==
    [][\A c \in Calls :
          /\ (Returns(c) /\ calls[c].op \in Mutations /\ calls'[c].result.success) =>
                \A key \in DOMAIN calls[c].before :
                    InScope(calls[c], key) => key \notin DOMAIN apiCache'
          /\ LET key == IF calls'[c].op = "getProjectById"
                        THEN ProjectKey(calls'[c].id) ELSE ListKey IN
             (/\ Requested(c) /\ isOnline
              /\ calls'[c].op \in {"getAllProjects", "getProjectById"}
              /\ key \notin DOMAIN apiCache) =>
                /\ calls'[c].pc = "fetching"
                /\ calls'[c].fetches = 1]_vars

\* deleteProject("7") succeeded with the list and project 7 cached beforehand
C3_Witness ==
    \E c \in Calls :
        /\ calls[c].pc = "done" /\ calls[c].op = "deleteProject" /\ calls[c].id = "7"
        /\ calls[c].result.success
        /\ {ListKey, ProjectKey("7")} \subseteq DOMAIN calls[c].before
        /\ ListKey \notin DOMAIN apiCache
        /\ ProjectKey("7") \notin DOMAIN apiCache

ClientErrorStatuses == {400, 401, 403, 404}

\* C4: an attempt that ended with an HTTP 4xx response is not followed by a
\* backoff and another attempt.
C4_ClientErrorNotRetried ==
    \A c \in Calls :
        calls[c].pc = "sleeping" =>
            calls[c].lastError \notin {HttpError(status) : status \in ClientErrorStatuses}

\* the failure envelope of a timeout, a connection failure or an HTTP 5xx
RetryableFailure(envelope) ==
    /\ ~envelope.success
    /\ \/ envelope.code \in {"TIMEOUT", "CONNECTION_ERROR", "SERVER_ERROR"}
       \/ envelope.error = HttpError(503).message

\* C5: with retries enabled, a call returns the failure envelope of a
\* retryable failure only after exactly 3 fetch invocations, and no call
\* invokes fetch more than 3 times.
C5_RetryableFailureTakesThreeAttempts ==
    \A c \in Calls :
        /\ calls[c].fetches <= 3
        /\ (/\ calls[c].pc \in {"post", "done"}
            /\ ~calls[c].skipRetry
            /\ RetryableFailure(calls[c].inner)) => calls[c].fetches = 3

\* getAllProjects returned TIMEOUT after three attempts
C5_Witness ==
    \E c \in Calls :
        /\ calls[c].pc = "done" /\ calls[c].op = "getAllProjects"
        /\ HasCode(calls[c].result, "TIMEOUT")
        /\ calls[c].fetches = 3

\* C6: the i-th wait of a call is 1000 * i ms; there is one wait after each
\* failed attempt except the last, none before the first attempt.
C6_LinearBackoff ==
    \A c \in Calls :
        /\ \A i \in 1..Len(calls[c].delays) : calls[c].delays[i] = 1000 * i
        /\ Len(calls[c].delays) =
              IF calls[c].pc = "sleeping" THEN calls[c].fetches
              ELSE IF calls[c].fetches = 0 THEN 0 ELSE calls[c].fetches - 1
        /\ Len(calls[c].delays) <= 2

\* a call failed on all three attempts and waited 1000 ms, then 2000 ms
C6_Witness ==
    \E c \in Calls :
        /\ calls[c].pc = "done" /\ ~calls[c].result.success
        /\ calls[c].fetches = 3
        /\ calls[c].delays = <<1000, 2000>>

\* C7: when attempt k gets a 2xx answer with a parsable body, makeRequest
\* returns {success:true, data: that body}, fetch has been invoked k times
\* after k - 1 waits, and the call makes no further attempt.
C7_SuccessOnAttemptK ==
    [][\A c \in Calls :
          /\ \A o \in Outcomes :
                (calls[c].pc = "fetching" /\ o.ok /\ makeRequestWithRetry(c, o)) =>
                    /\ calls'[c].pc = "post"
                    /\ calls'[c].inner = Success(o.body, o.status)
                    /\ calls'[c].fetches = calls[c].attempt
                    /\ Len(calls'[c].delays) = calls[c].attempt - 1
          /\ (Returns(c) /\ calls[c].inner.success) =>
                /\ calls'[c].fetches = calls[c].fetches
                /\ calls[c].op \in Reads => calls'[c].result = calls[c].inner]_vars

\* getAllProjects succeeded on its third attempt
C7_Witness ==
    \E c \in Calls :
        /\ calls[c].pc = "done" /\ calls[c].op = "getAllProjects"
        /\ calls[c].result.success
        /\ calls[c].fetches = 3 /\ Len(calls[c].delays) = 2

\* the arguments of the call fail the local validation of its operation
LocallyInvalid(call) ==
    \/ call.op \in {"getProjectById", "updateProject", "deleteProject"} /\ call.id = ""
    \/ call.op = "createProject" /\ ~validateProjectData(call.data, TRUE).isValid
    \/ call.op = "updateProject" /\ ~validateProjectData(call.data, FALSE).isValid

\* C8: a call whose arguments fail local validation returns VALIDATION_ERROR
\* at once: no fetch, no attempt of the retry loop, the cache unchanged.
C8_InvalidInputNeverReachesNetwork ==
    [][\A c \in Calls :
          (Issued(c) /\ LocallyInvalid(calls'[c])) =>
              /\ calls'[c].pc = "done"
              /\ HasCode(calls'[c].result, "VALIDATION_ERROR")
              /\ calls'[c].threw = "none"
              /\ calls'[c].fetches = 0
              /\ calls'[c].attempt = 0
              /\ calls'[c].delays = <<>>
              /\ apiCache' = apiCache]_vars

\* createProject({name:"", description:"x", endDate:"2025-01-01"}) was rejected
\* while online and with a non-empty cache
C8_Witness ==
    \E c \in Calls :
        /\ calls[c].pc = "done" /\ calls[c].op = "createProject"
        /\ calls[c].data = EmptyName
        /\ HasCode(calls[c].result, "VALIDATION_ERROR")
        /\ calls[c].fetches = 0
        /\ isOnline
        /\ apiCache # <<>> /\ apiCache = calls[c].before

\* a string that is a real calendar date in the form YYYY-MM-DD
RealDate(v) == v.t = "string" /\ v.fmt /\ v.iso /\ v.time # NaN

\* both dates are given and the end date is not strictly later than the start
EndNotLater(data) ==
    /\ data.obj
    /\ data.startDate.t # "undefined" /\ data.endDate.t # "undefined"
    /\ ~(/\ RealDate(data.startDate) /\ RealDate(data.endDate)
         /\ data.endDate.time > data.startDate.time)

\* C9: createProject and updateProject answer VALIDATION_ERROR, without a
\* request, to project data with both dates given and the end date not
\* strictly later than the start date.
C9_EndDateMustFollowStartDate ==
    [][\A c \in Calls :
          (/\ Issued(c)
           /\ calls'[c].op \in {"createProject", "updateProject"}
           /\ EndNotLater(calls'[c].data)) =>
              /\ calls'[c].pc = "done"
              /\ HasCode(calls'[c].result, "VALIDATION_ERROR")
              /\ calls'[c].fetches = 0]_vars

\* updateProject("5", {endDate:"2024-01-01", startDate:"2024-06-01"}) was rejected
C9_Witness ==
    \E c \in Calls :
        /\ calls[c].pc = "done" /\ calls[c].op = "updateProject" /\ calls[c].id = "5"
        /\ calls[c].data = EndBeforeStart
        /\ HasCode(calls[c].result, "VALIDATION_ERROR")
        /\ calls[c].fetches = 0

\* C10: every public operation ends by returning an envelope; no exception
\* escapes to the caller.
C10_NoExceptionEscapes ==
    \A c \in Calls :
        /\ calls[c].threw = "none"
        /\ calls[c].pc = "done" => calls[c].result # NoResult

\* the cache key of the GET request that call makes
KeyOf(call) == <<"GET", "_">> \o call.endpoint \o <<"_", "{}">>

\* C11: the cache lookup of a cacheable GET issued online reports an entry of
\* age greater than CACHE_DURATION as absent (the call goes on to fetch) and
\* deletes it, leaving every other entry; an entry of age at most
\* CACHE_DURATION is returned and stays in the map.
C11_LookupEvictsExpiredKeepsFresh ==
    [][\A c \in Calls :
          LET key == KeyOf(calls'[c]) IN
          (/\ Requested(c) /\ isOnline /\ calls'[c].useCache
           /\ key \in DOMAIN apiCache) =>
              IF now - apiCache[key].timestamp > CACHE_DURATION
              THEN /\ calls'[c].pc = "fetching"
                   /\ key \notin DOMAIN apiCache'
                   /\ \A k \in DOMAIN apiCache \ {key} :
                         k \in DOMAIN apiCache' /\ apiCache'[k] = apiCache[k]
              ELSE /\ calls'[c].pc = "post"
                   /\ calls'[c].inner = apiCache[key].data
                   /\ key \in DOMAIN apiCache'
                   /\ apiCache'[key] = apiCache[key]]_vars

\* getProjectById("7") found its entry one millisecond too old: the entry is
\* gone, the list entry is still there, and the call is fetching
C11_Witness ==
    \E c \in Calls :
        /\ calls[c].pc = "fetching" /\ calls[c].op = "getProjectById"
        /\ calls[c].id = "7" /\ calls[c].fetches = 1
        /\ ProjectKey("7") \in DOMAIN calls[c].before
        /\ now - calls[c].before[ProjectKey("7")].timestamp = CACHE_DURATION + 1
        /\ ProjectKey("7") \notin DOMAIN apiCache
        /\ ListKey \in DOMAIN apiCache

\* C12: a cacheable read issued online whose entry is older than
\* CACHE_DURATION invokes fetch; when that first attempt is answered
\* successfully the call has invoked fetch exactly once, returns the fresh
\* envelope, and the cache holds that envelope under the key with the instant
\* of the answer as its timestamp.
C12_ExpiredReadRefetchesOnce ==
    [][\A c \in Calls :
          /\ (/\ Requested(c) /\ isOnline /\ calls'[c].useCache
              /\ KeyOf(calls'[c]) \in DOMAIN apiCache
              /\ now - apiCache[KeyOf(calls'[c])].timestamp > CACHE_DURATION) =>
                 /\ calls'[c].pc = "fetching"
                 /\ calls'[c].fetches = 1
          /\ (/\ calls[c].pc = "fetching" /\ calls[c].attempt = 1 /\ calls[c].useCache
              /\ calls'[c].pc = "post" /\ calls'[c].inner.success) =>
                 /\ calls'[c].fetches = 1
                 /\ calls[c].cacheKey \in DOMAIN apiCache'
                 /\ apiCache'[calls[c].cacheKey] =
                        [data |-> calls'[c].inner, timestamp |-> now]
          /\ (Returns(c) /\ calls[c].op \in Reads /\ calls[c].inner.success) =>
                 /\ calls'[c].fetches = calls[c].fetches
                 /\ calls'[c].result = calls[c].inner
                 /\ apiCache' = apiCache]_vars

\* getAllProjects found an entry stored at 0 expired, fetched once, and the
\* cache now holds the new answer, different from the old, stamped now
C12_Witness ==
    \E c \in Calls :
        /\ calls[c].pc = "done" /\ calls[c].op = "getAllProjects"
        /\ calls[c].result.success /\ calls[c].fetches = 1
        /\ ListKey \in DOMAIN calls[c].before
        /\ calls[c].before[ListKey].timestamp = 0
        /\ now > CACHE_DURATION
        /\ ListKey \in DOMAIN apiCache
        /\ apiCache[ListKey] = [data |-> calls[c].result, timestamp |-> now]
        /\ apiCache[ListKey].data # calls[c].before[ListKey].data

\* this step is the retry loop of call c giving up and classifying
Classifies(c) ==
    /\ calls[c].pc = "fetching" /\ calls'[c].pc = "post"
    /\ ~calls'[c].inner.success

\* the error caught on the last attempt of a call that has given up
FinalError(call) == call.errors[Len(call.errors)]

\* the message texts of the raw errors
RawMessages == {o.error.message : o \in Outcomes}

\* the raw errors the classifier has a branch for
Recognised ==
    {AbortError, FailedToFetch} \cup {HttpError(status) : status \in {401, 403, 404, 500}}

\* C13: a locally invalid call made offline returns VALIDATION_ERROR; a call
\* that reaches makeRequest offline returns OFFLINE with no attempt; when the
\* retry loop gives up, an AbortError is TIMEOUT whatever its message says
\* (also a message that names an HTTP status), and an error that is neither an
\* abort, nor 'Failed to fetch', nor HTTP 401/403/404/500 is UNKNOWN_ERROR.
C13_ClassificationPrecedence ==
    [][\A c \in Calls :
          /\ (Issued(c) /\ ~isOnline /\ LocallyInvalid(calls'[c])) =>
                /\ calls'[c].pc = "done"
                /\ HasCode(calls'[c].result, "VALIDATION_ERROR")
          /\ (Requested(c) /\ ~isOnline) =>
                /\ HasCode(calls'[c].inner, "OFFLINE")
                /\ calls'[c].attempt = 0 /\ calls'[c].fetches = 0
          /\ Classifies(c) =>
                /\ FinalError(calls'[c]).name = "AbortError" =>
                      /\ HasCode(calls'[c].inner, "TIMEOUT")
                      /\ \A m \in RawMessages :
                            HasCode(handleRequestError([name |-> "AbortError",
                                                        message |-> m]), "TIMEOUT")
                /\ FinalError(calls'[c]) \notin Recognised =>
                      HasCode(calls'[c].inner, "UNKNOWN_ERROR")]_vars

\* createProject with an empty name was rejected as VALIDATION_ERROR while the
\* client is offline
C13_Witness ==
    \E c \in Calls :
        /\ calls[c].pc = "done" /\ calls[c].op = "createProject"
        /\ calls[c].data = EmptyName /\ ~isOnline
        /\ HasCode(calls[c].result, "VALIDATION_ERROR")
        /\ calls[c].fetches = 0

\* the closed set of failure codes
ErrorCodes ==
    {"TIMEOUT", "CONNECTION_ERROR", "OFFLINE", "NOT_FOUND", "UNAUTHORIZED", "FORBIDDEN",
     "SERVER_ERROR", "VALIDATION_ERROR", "UNKNOWN_ERROR"}

\* a failure envelope with a code of the closed set and an error text
ClosedFailure(envelope) ==
    /\ ~envelope.success
    /\ envelope.code \in ErrorCodes
    /\ envelope.error # <<>>

\* C14: every failure envelope that makeRequest or a public operation returns
\* carries a code of the closed set, and whenever the retry loop has given up
\* the classifier has returned such an envelope for the error it was given.
C14_FailureCodesAreClosed ==
    \A c \in Calls :
        /\ (calls[c].pc = "post" /\ ~calls[c].inner.success) =>
              ClosedFailure(calls[c].inner)
        /\ (calls[c].pc = "done" /\ calls[c].threw = "none"
                /\ ~calls[c].result.success) =>
              ClosedFailure(calls[c].result)
        /\ (calls[c].pc = "post" /\ calls[c].errors # <<>>) =>
              ClosedFailure(calls[c].inner)

\* searchProjects returned UNKNOWN_ERROR after three answers that were not JSON
C14_Witness ==
    \E c \in Calls :
        /\ calls[c].pc = "done" /\ calls[c].op = "searchProjects"
        /\ calls[c].fetches = 3
        /\ calls[c].result = Failure(SyntaxError.message, "UNKNOWN_ERROR")

\* C15: when the retry loop gives up, the envelope it returns is the
\* classification of the error of the last attempt alone, whatever the earlier
\* attempts failed with: a last attempt answered HTTP 500 gives SERVER_ERROR,
\* a last attempt that was aborted gives TIMEOUT.
C15_LastErrorIsClassified ==
    \A c \in Calls :
        (calls[c].pc = "post" /\ calls[c].errors # <<>>) =>
            /\ Len(calls[c].errors) = calls[c].fetches
            /\ calls[c].inner = handleRequestError(FinalError(calls[c]))
            /\ FinalError(calls[c]) = HttpError(500) =>
                  HasCode(calls[c].inner, "SERVER_ERROR")
            /\ FinalError(calls[c]) = AbortError => HasCode(calls[c].inner, "TIMEOUT")

\* timeout, timeout, then HTTP 500: the call gave up with SERVER_ERROR
C15_Witness ==
    \E c \in Calls :
        /\ calls[c].pc = "post"
        /\ calls[c].errors = <<AbortError, AbortError, HttpError(500)>>
        /\ HasCode(calls[c].inner, "SERVER_ERROR")

\* C16: when the retry loop gives up after an attempt that controller.abort()
\* ended, the envelope is TIMEOUT; when it gives up after fetch was rejected
\* at network level, the envelope is not TIMEOUT; and TIMEOUT is returned for
\* nothing but an aborted last attempt.
C16_TimeoutIsNotConnectionError ==
    \A c \in Calls :
        (calls[c].pc = "post" /\ calls[c].errors # <<>>) =>
            /\ FinalError(calls[c]) = AbortError =>
                  /\ HasCode(calls[c].inner, "TIMEOUT")
                  /\ ~HasCode(calls[c].inner, "CONNECTION_ERROR")
            /\ FinalError(calls[c]) \in {FailedToFetch, NetworkError} =>
                  ~HasCode(calls[c].inner, "TIMEOUT")
            /\ HasCode(calls[c].inner, "TIMEOUT") => FinalError(calls[c]) = AbortError

\* checkHealth gave up with TIMEOUT after its one attempt was aborted, and
\* another call gave up with CONNECTION_ERROR after fetch was rejected
C16_Witness ==
    \E c \in Calls :
        /\ calls[c].pc = "post" /\ calls[c].op = "checkHealth"
        /\ calls[c].timeout = healthTimeout
        /\ calls[c].errors = <<AbortError>>
        /\ HasCode(calls[c].inner, "TIMEOUT")
        /\ HasCode(handleRequestError(FailedToFetch), "CONNECTION_ERROR")

\* the code the claim assigns to an HTTP status
CodeOfStatus(status) ==
    CASE status = 401 -> "UNAUTHORIZED"
      [] status = 403 -> "FORBIDDEN"
      [] status = 404 -> "NOT_FOUND"
      [] status = 500 -> "SERVER_ERROR"

\* C17: an attempt answered with a status outside 200-299 never ends in a
\* success envelope and stores nothing in the cache; when the retry loop gives
\* up on an answer with status 401, 403, 404 or 500 the envelope has the code
\* UNAUTHORIZED, FORBIDDEN, NOT_FOUND or SERVER_ERROR.
C17_NonOkStatusFailsWithItsCode ==
    [][\A c \in Calls :
          /\ \A o \in Outcomes :
                (/\ calls[c].pc = "fetching"
                 /\ o.status # 0 /\ ~(o.status >= 200 /\ o.status <= 299)
                 /\ makeRequestWithRetry(c, o)) =>
                    /\ ~(calls'[c].pc = "post" /\ calls'[c].inner.success)
                    /\ calls'[c].errors = Append(calls[c].errors, HttpError(o.status))
                    /\ apiCache' = apiCache
          /\ Classifies(c) =>
                \A status \in {401, 403, 404, 500} :
                    FinalError(calls'[c]) = HttpError(status) =>
                        HasCode(calls'[c].inner, CodeOfStatus(status))]_vars

\* answers 401, 404, then 403: the call gave up with FORBIDDEN
C17_Witness ==
    \E c \in Calls :
        /\ calls[c].pc = "post"
        /\ calls[c].errors = <<HttpError(401), HttpError(404), HttpError(403)>>
        /\ HasCode(calls[c].inner, "FORBIDDEN")

\* C18: when the retry loop gives up on an answer with a 5xx status, the call
\* has made all its attempts and the envelope is SERVER_ERROR.
C18_Every5xxIsServerError ==
    \A c \in Calls :
        \A status \in {st \in ErrorStatuses : st >= 500} :
            (/\ calls[c].pc = "post" /\ calls[c].errors # <<>>
             /\ FinalError(calls[c]) = HttpError(status)) =>
                /\ calls[c].fetches = maxAttempts(calls[c].skipRetry)
                /\ HasCode(calls[c].inner, "SERVER_ERROR")

\* C19: when the retry loop gives up on an answer with status 400, the
\* envelope is VALIDATION_ERROR.
C19_Status400IsValidationError ==
    \A c \in Calls :
        (/\ calls[c].pc = "post" /\ calls[c].errors # <<>>
         /\ FinalError(calls[c]) = HttpError(400)) =>
            HasCode(calls[c].inner, "VALIDATION_ERROR")

\* the raw errors of a timeout, a connection failure and an HTTP status
OtherFailures ==
    {AbortError, FailedToFetch, NetworkError}
    \cup {HttpError(status) : status \in ErrorStatuses}

\* C20: when the retry loop gives up on a 2xx answer whose body is not JSON,
\* the envelope is a failure, and its code is not the code of any timeout,
\* connection failure or HTTP-status failure.
C20_ParseFailureHasItsOwnCode ==
    \A c \in Calls :
        (/\ calls[c].pc = "post" /\ calls[c].errors # <<>>
         /\ FinalError(calls[c]) = SyntaxError) =>
            /\ ~calls[c].inner.success
            /\ \A e \in OtherFailures :
                  handleRequestError(e).code # calls[c].inner.code

\* the attempts of the call that have started and not yet ended
InFlight(call) ==
    IF call.pc \in {"fetching", "sleeping"} THEN call.fetches - Len(call.errors) ELSE 0

\* C21: a call never has more than one attempt in flight (exactly one while
\* it awaits fetch, none while it sleeps), and fetch is invoked only by the
\* step that issues the call or by the step that ends the backoff sleep which
\* followed the failure of the previous attempt.
C21_AttemptsAreSequential ==
    [][\A c \in Calls :
          /\ InFlight(calls'[c]) <= 1
          /\ calls'[c].pc = "fetching" => InFlight(calls'[c]) = 1
          /\ calls'[c].pc = "sleeping" => InFlight(calls'[c]) = 0
          /\ calls'[c].fetches # calls[c].fetches =>
                /\ calls'[c].fetches = calls[c].fetches + 1
                /\ calls'[c].pc = "fetching"
                /\ \/ Issued(c) /\ calls'[c].fetches = 1
                   \/ /\ calls[c].pc = "sleeping"
                      /\ Len(calls[c].errors) = calls[c].fetches
                      /\ Len(calls[c].delays) = calls[c].fetches]_vars

\* the third attempt of a call is in flight after two failures and two sleeps
C21_Witness ==
    \E c \in Calls :
        /\ calls[c].pc = "fetching" /\ calls[c].attempt = 3
        /\ calls[c].fetches = 3 /\ Len(calls[c].errors) = 2
        /\ calls[c].delays = <<1000, 2000>>

\* call d is between its issue and the end of its retry loop, on this key
Pending(d, key) ==
    calls[d].pc \in {"fetching", "sleeping"} /\ calls[d].cacheKey = key

\* C22: a cacheable read issued online while another call with the same key
\* is pending, and which finds no fresh entry, invokes fetch itself; and
\* every successful attempt of a cacheable read stores its own envelope under
\* the key, replacing whatever an earlier completion stored.
C22_IdenticalReadsAreNotDeduplicated ==
    [][\A c \in Slots :
          /\ (/\ Requested(c) /\ isOnline /\ calls'[c].useCache
              /\ \E d \in Slots \ {c} : Pending(d, KeyOf(calls'[c]))
              /\ \/ KeyOf(calls'[c]) \notin DOMAIN apiCache
                 \/ now - apiCache[KeyOf(calls'[c])].timestamp > CACHE_DURATION) =>
                 /\ calls'[c].pc = "fetching"
                 /\ calls'[c].fetches = 1
          /\ (/\ calls[c].pc = "fetching" /\ calls[c].useCache
              /\ calls'[c].pc = "post" /\ calls'[c].inner.success) =>
                 /\ calls[c].cacheKey \in DOMAIN apiCache'
                 /\ apiCache'[calls[c].cacheKey] =
                        [data |-> calls'[c].inner, timestamp |-> now]]_vars

\* the only two calls issued are list reads that both found the cache empty
\* and both fetched; they got different answers, and the cache holds the
\* answer of the one that has just completed
C22_Witness ==
    /\ issued = 2
    /\ calls[1].op = "getAllProjects" /\ calls[2].op = "getAllProjects"
    /\ calls[1].pc = "done" /\ calls[2].pc = "post"
    /\ calls[1].before = <<>> /\ calls[2].before = <<>>
    /\ calls[1].fetches >= 1 /\ calls[2].fetches >= 1
    /\ calls[1].result.success /\ calls[2].inner.success
    /\ calls[1].result # calls[2].inner
    /\ ListKey \in DOMAIN apiCache
    /\ apiCache[ListKey].data = calls[2].inner

\* C23: a cacheable read issued while isOnline is false returns OFFLINE and
\* not the cached envelope, whether or not its key has an entry and whatever
\* the age of that entry, and from its issue to its return the cache map stays
\* exactly as it was: no entry returned, deleted, added or replaced.
C23_OfflineReadLeavesCacheAlone ==
    [][\A c \in Calls :
          /\ (Requested(c) /\ ~isOnline /\ calls'[c].useCache) =>
                /\ HasCode(calls'[c].inner, "OFFLINE")
                /\ KeyOf(calls'[c]) \in DOMAIN apiCache =>
                      calls'[c].inner # apiCache[KeyOf(calls'[c])].data
                /\ apiCache' = apiCache
          /\ (Returns(c) /\ calls[c].useCache /\ HasCode(calls[c].inner, "OFFLINE")) =>
                /\ calls'[c].result = calls[c].inner
                /\ apiCache' = apiCache
                /\ apiCache' = calls[c].before]_vars

\* getProjectById("7") made offline returned OFFLINE although the entry of
\* project 7 is cached and fresh; the cache is as the call found it
C23_Witness ==
    \E c \in Calls :
        /\ calls[c].pc = "done" /\ calls[c].op = "getProjectById" /\ calls[c].id = "7"
        /\ HasCode(calls[c].result, "OFFLINE") /\ calls[c].fetches = 0
        /\ ProjectKey("7") \in DOMAIN apiCache
        /\ now - apiCache[ProjectKey("7")].timestamp <= CACHE_DURATION
        /\ apiCache = calls[c].before

\* C24: isOnline changes only in a step of the online handler, which makes it
\* true, or of the offline handler, which makes it false, and such a step
\* changes nothing else; no step of a call and no change of the cache changes
\* isOnline.
C24_OnlyEventsChangeIsOnline ==
    [][/\ isOnline' # isOnline =>
             /\ (online /\ isOnline') \/ (offline /\ ~isOnline')
             /\ calls' = calls /\ apiCache' = apiCache
       /\ \A c \in Calls : calls'[c] # calls[c] => isOnline' = isOnline
       /\ apiCache' # apiCache => isOnline' = isOnline]_vars

\* the offline event fired while a call was pending: the call, which passed
\* the connectivity check online, has failed an attempt and sleeps, and the
\* flag is still false
C24_Witness ==
    \E c \in Calls :
        /\ calls[c].pc = "sleeping" /\ calls[c].fetches = 2
        /\ ~isOnline
        /\ apiCache # <<>>

\* C25: every entry of the cache has a GET key that is not the health check's
\* and holds a success envelope; the mutating operations and the health
\* check run with the cache disabled, so a success they return was fetched.
C25_CacheHoldsOnlySuccessfulGets ==
    /\ \A key \in DOMAIN apiCache :
          /\ apiCache[key].data.success
          /\ Head(key) = "GET"
          /\ ~Includes(key, <<"/health">>)
    /\ \A c \in Calls :
          calls[c].op \in Mutations \cup {"checkHealth"} =>
              /\ ~calls[c].useCache
              /\ (calls[c].pc \in {"post", "done"} /\ calls[c].inner.success) =>
                    calls[c].fetches >= 1

\* the third call, a deleteProject that failed on every attempt, left the
\* cached list as the only entry
C25_Witness ==
    \E c \in Calls :
        /\ issued = 3
        /\ calls[c].pc = "done" /\ calls[c].op = "deleteProject"
        /\ HasCode(calls[c].result, "SERVER_ERROR") /\ calls[c].fetches = 3
        /\ DOMAIN apiCache = {ListKey}
        /\ apiCache = calls[c].before

\* two bodies are logically equal: both null, or objects with the same
\* properties and values, in whatever order they were written
LogicallyEqual(a, b) == [a EXCEPT !.order = 0] = [b EXCEPT !.order = 0]

\* C26: the cache key of a pending request equals the key of every request
\* with the same method, the same endpoint and a logically equal body, and
\* differs from the key of every request that differs in one of the three.
C26_CacheKeyIsInjective ==
    \A c \in Calls :
        calls[c].pc = "fetching" =>
            \A method \in KeyMethods, endpoint \in KeyEndpoints, data \in KeyBodies :
                (/\ method = calls[c].method /\ endpoint = calls[c].endpoint
                 /\ LogicallyEqual(data, calls[c].body))
                <=> generateCacheKey(endpoint, method, data) = calls[c].cacheKey

\* the name, the description or the users list is over its limit
OverLimit(data) ==
    /\ data.obj
    /\ \/ data.name.t = "string" /\ data.name.len > 100
       \/ data.description.t = "string" /\ data.description.len > 500
       \/ data.users.t = "array" /\ data.users.len > 7

\* C27: a createProject or updateProject call whose project data has a name
\* of more than 100 characters, a description of more than 500 characters or
\* more than 7 users has returned VALIDATION_ERROR without a fetch.
C27_LengthLimitsAreEnforced ==
    \A c \in Calls :
        (/\ calls[c].op \in {"createProject", "updateProject"}
         /\ OverLimit(calls[c].data)) =>
            /\ calls[c].pc = "done"
            /\ HasCode(calls[c].result, "VALIDATION_ERROR")
            /\ calls[c].fetches = 0

\* the cache key of the search for "a"
SearchKeyA == <<"GET", "_", "/projects", "/search?q=", "a", "_", "{}">>

\* the term has no character other than spaces
Blank(term) == \A i \in 1..Len(term) : term[i] = " "

\* C28: searchProjects with a blank term returns {success:true, data:[]} at
\* once, online or offline, with no fetch and the cache unchanged; the terms
\* "a" and " a" both make the request of key GET_/projects/search?q=a_{}, and
\* both are served from the entry of that key when it is fresh.
C28_BlankSearchIsLocalAndTermIsTrimmed ==
    [][\A c \in Calls :
          /\ (Issued(c) /\ calls'[c].op = "searchProjects" /\ Blank(calls'[c].term)) =>
                /\ calls'[c].pc = "done"
                /\ calls'[c].result = Success(ArrayBody(<<>>), 200)
                /\ calls'[c].fetches = 0
                /\ apiCache' = apiCache
          /\ (Issued(c) /\ calls'[c].op = "searchProjects"
                /\ calls'[c].term \in {<<"a">>, <<" ", "a">>}) =>
                /\ calls'[c].pc # "done"
                /\ KeyOf(calls'[c]) = SearchKeyA
                /\ (/\ isOnline /\ SearchKeyA \in DOMAIN apiCache
                    /\ now - apiCache[SearchKeyA].timestamp <= CACHE_DURATION) =>
                       /\ calls'[c].pc = "post"
                       /\ calls'[c].inner = apiCache[SearchKeyA].data
                       /\ calls'[c].fetches = 0
                /\ (isOnline /\ SearchKeyA \notin DOMAIN apiCache) =>
                       /\ calls'[c].pc = "fetching"
                       /\ calls'[c].cacheKey = SearchKeyA]_vars

\* the search for " a" was answered without a fetch from the entry of the
\* search for "a"
C28_Witness ==
    \E c \in Calls :
        /\ calls[c].pc = "done" /\ calls[c].op = "searchProjects"
        /\ calls[c].term = <<" ", "a">>
        /\ calls[c].fetches = 0 /\ calls[c].result.success
        /\ SearchKeyA \in DOMAIN apiCache
        /\ calls[c].result = apiCache[SearchKeyA].data
        /\ DOMAIN apiCache = {SearchKeyA}

(***************************************************************************)
(* C29: an authenticated GET of /projects/search is dispatched to the      *)
(* search handler, and not to the handler of /projects/:id.                *)
(***************************************************************************)
SearchRoute == Route("GET", <<"projects", "search">>, 225)

C29_SearchReachesTheSearchHandler ==
    \A c \in Calls :
        calls[c].op = "searchProjects" /\ calls[c].pc = "fetching"
            => dispatch(calls[c].method, Segments(calls[c].endpoint)) = SearchRoute

\* C30: a checkHealth issued online always starts a transport attempt,
\* whatever the cache holds; the call makes one attempt and no sleep, so a
\* failed attempt ends it; and no step of the call changes the cache.
C30_HealthCheckIsOneUncachedAttempt ==
    [][\A c \in Calls :
          calls'[c].op = "checkHealth" =>
              /\ (Issued(c) /\ isOnline) =>
                     calls'[c].pc = "fetching" /\ calls'[c].fetches = 1
              /\ calls'[c].fetches <= 1
              /\ calls'[c].delays = <<>>
              /\ calls'[c].pc # "sleeping"
              /\ apiCache' = apiCache]_vars

\* a later call, a checkHealth that succeeded on its one attempt while the
\* cached list was there, and left it as it was
C30_Witness ==
    \E c \in Calls :
        /\ issued >= 2
        /\ calls[c].pc = "done" /\ calls[c].op = "checkHealth"
        /\ calls[c].result.success /\ calls[c].fetches = 1
        /\ DOMAIN apiCache = {ListKey}
        /\ apiCache = calls[c].before

(***************************************************************************)
(* C31: no step of a create, update or delete changes the cache, except    *)
(* the return of one that succeeded; so when the call has returned a       *)
(* failure the cache is the one the call found.                            *)
(***************************************************************************)
C31_FailedMutationLeavesCache ==
    [][\A c \in Calls :
          calls'[c].op \in Mutations =>
              /\ apiCache' # apiCache => Returns(c) /\ calls[c].inner.success
              /\ (calls'[c].pc = "done" /\ ~calls'[c].result.success) =>
                     apiCache' = calls'[c].before]_vars

\* an updateProject that failed on all three attempts while the list was
\* cached, and left it cached
C31_Witness ==
    \E c \in Calls :
        /\ calls[c].pc = "done" /\ calls[c].op = "updateProject"
        /\ ~calls[c].result.success /\ calls[c].fetches = 3
        /\ ListKey \in DOMAIN apiCache
        /\ apiCache = calls[c].before

(***************************************************************************)
(* C32: when a successful create, update or delete has returned, a read    *)
(* whose only transport attempt started before that mutation was issued    *)
(* does not store the response of that attempt.                            *)
(***************************************************************************)
\* read r is waiting for the one attempt it started before mutation d was
\* issued, and d has returned success
Overtaken(r, d) ==
    /\ calls[r].pc = "fetching" /\ calls[r].useCache /\ calls[r].fetches = 1
    /\ calls[d].op \in Mutations /\ calls[d].pc = "done" /\ calls[d].result.success
    /\ calls[r].seq < calls[d].seq

C32_NoStaleEntryAfterMutation ==
    [][\A r \in Slots : \A d \in Slots \ {r} :
          Overtaken(r, d) => apiCache' = apiCache]_vars

C34_ConnectivityIsSampledOnce ==
    [][\A c \in Calls :
          /\ (calls[c].pc # "post" /\ calls'[c].pc = "post"
                  /\ HasCode(calls'[c].inner, "OFFLINE")) =>
                 Issued(c) /\ ~isOnline /\ calls'[c].fetches = 0
          /\ (~isOnline /\ calls[c].pc = "sleeping" /\ calls'[c] # calls[c]) =>
                 /\ calls'[c].pc = "fetching"
                 /\ calls'[c].fetches = calls[c].fetches + 1
          /\ (~isOnline /\ calls[c].pc = "fetching" /\ calls'[c] # calls[c]) =>
                 \/ calls'[c].inner.success /\ calls'[c].pc = "post"
                 \/ /\ calls'[c].pc = "sleeping"
                    /\ calls[c].fetches < maxAttempts(calls[c].skipRetry)
                 \/ /\ calls'[c].pc = "post"
                    /\ calls[c].fetches = maxAttempts(calls[c].skipRetry)
                    /\ calls'[c].inner = handleRequestError(FinalError(calls'[c]))]_vars

\* the offline event fired during a call that had passed the check: the call
\* made its three attempts, the last one timed out, and it gave up with
\* TIMEOUT while isOnline is false
C34_Witness ==
    \E c \in Calls :
        /\ ~isOnline
        /\ calls[c].pc = "post" /\ calls[c].fetches = 3
        /\ FinalError(calls[c]) = AbortError
        /\ HasCode(calls[c].inner, "TIMEOUT")

(***************************************************************************)
(* C35: every call that was issued eventually returns an envelope, having  *)
(* made at most maxAttempts transport attempts and at most maxAttempts - 1 *)
(* backoff waits.                                                          *)
(***************************************************************************)
\* call c stays within its attempts and waits
WithinBudget(c) ==
    /\ calls[c].fetches <= maxAttempts(calls[c].skipRetry)
    /\ Len(calls[c].delays) <= maxAttempts(calls[c].skipRetry) - 1

\* call c has returned an envelope to its caller
Returned(c) ==
    calls[c].pc = "done" /\ calls[c].threw = "none" /\ calls[c].result # NoResult

\* every call that was issued eventually settles, by returning or by throwing
EveryCallSettles ==
    \A c \in Calls : (calls[c].pc # "idle") ~> (calls[c].pc = "done")

C35_EveryCallReturnsAnEnvelope ==
    \A c \in Calls :
        /\ [] WithinBudget(c)
        /\ (calls[c].pc # "idle") ~> Returned(c)

(***************************************************************************)
(* C36: getProjectsByStatus(s) makes the request of getAllProjects under   *)
(* the same cache key; it returns the failure of that request as it is,    *)
(* and for a success it returns status 200 with the fetched projects whose *)
(* status is s, in their order; its return leaves the cache as it is.      *)
(***************************************************************************)
C36_StatusFilterOfTheList ==
    [][\A c \in Calls :
          calls'[c].op = "getProjectsByStatus" =>
              /\ Requested(c) =>
                     /\ calls'[c].endpoint = <<"/projects">>
                     /\ calls'[c].method = "GET" /\ calls'[c].useCache
                     /\ KeyOf(calls'[c]) = ListKey
              /\ Returns(c) =>
                     /\ apiCache' = apiCache
                     /\ calls'[c].threw = "none"
                     /\ calls'[c].result =
                            IF calls[c].inner.success
                            THEN Success(ArrayBody(filterByStatus(
                                     calls[c].inner.data.items, calls[c].filter)), 200)
                            ELSE calls[c].inner]_vars

(***************************************************************************)
(* C37: a step that changes or removes a project, or changes its          *)
(* participants, is the write of a PUT or DELETE request whose session     *)
(* user is the admin of that project; a request of any other user gets no  *)
(* further than the admin check, which answers 403, and is answered 500    *)
(* only when the database fails before that.                               *)
(***************************************************************************)
\* the rows of Proyectos with that id: one or none
Row(database, id) ==
    IF id \in DOMAIN database.Proyectos THEN <<database.Proyectos[id]>> ELSE <<>>

Members(database, id) == {p \in database.ParticipantesProyecto : p[1] = id}

C37_OnlyTheAdminChangesAProject ==
    [][/\ \A id \in ProyectoIds :
             (Row(db', id) # Row(db, id) \/ Members(db', id) # Members(db, id)) =>
                 \E r \in Requests :
                     /\ srv[r].pc = "write" /\ srv[r].id = id
                     /\ srv'[r].pc # "write"
                     /\ srv[r].usuario = db.Proyectos[id].idUsuarioAdmin
       /\ \A r \in Requests :
             (srv[r].pc = "adminCheck" /\ srv'[r] # srv[r]
                  /\ ~isAdmin(db, srv[r].id, srv[r].usuario)) =>
                 /\ srv'[r].pc = "done" /\ srv'[r].status \in {403, 500}
                 /\ db' = db]_vars

\* user 2, who is not the admin of project 7, was answered 403 to a DELETE
\* of project 7 while user 1, its admin, has renamed it
C37_Witness ==
    \E r \in Requests :
        /\ srv[r].pc = "done" /\ srv[r].handler = "DELETE" /\ srv[r].status = 403
        /\ srv[r].id = "7" /\ srv[r].usuario = 2
        /\ "7" \in DOMAIN db.Proyectos
        /\ db.Proyectos["7"] = Proyecto(1, "b")
        /\ Members(db, "7") = {<<"7", 1>>, <<"7", 2>>}

(***************************************************************************)
(* C38: no token changes a password more than once; a password changes     *)
(* only in the UPDATE of a reset that carries the user's current token,    *)
(* and that UPDATE clears the token and its expiry; a reset whose lookup   *)
(* finds its token unknown, already used or expired is turned away and     *)
(* changes nothing.                                                        *)
(***************************************************************************)
\* this step is the UPDATE of reset request r
Updates(r) ==
    /\ srv[r].handler = "postResetPassword"
    /\ srv[r].pc = "update" /\ srv'[r].pc = "done"

C38_TokenResetsOnce ==
    [][/\ \A t \in 1..MaxTokens : db'.resets[t] <= 1
       /\ \A u \in Users :
             db'.Usuarios[u].contrasenia # db.Usuarios[u].contrasenia =>
                 \E r \in Requests :
                     /\ Updates(r)
                     /\ srv[r].token = db.Usuarios[u].tokenRecuperacion
                     /\ db'.resets[srv[r].token] = db.resets[srv[r].token] + 1
                     /\ db'.Usuarios[u].tokenRecuperacion = SqlNull
                     /\ db'.Usuarios[u].tokenExpiracion = SqlNull
       /\ \A r \in Requests :
             (/\ srv[r].handler = "postResetPassword" /\ srv[r].pc = "select"
              /\ srv'[r] # srv[r]) =>
                 /\ db' = db
                 /\ validRows(db, srv[r].token) = {} => srv'[r].pc = "done"
                 /\ srv'[r].pc = "update" =>
                        \E u \in Users :
                            /\ db.Usuarios[u].tokenRecuperacion = srv[r].token
                            /\ db.clock < db.Usuarios[u].tokenExpiracion]_vars

\* token 1 has changed the password of user 1 once and is cleared, and a
\* second reset with token 1 has been turned away
C38_Witness ==
    \E r \in Requests :
        /\ db.resets[1] = 1
        /\ db.Usuarios[1].contrasenia = hashSync("Nueva1!")
        /\ db.Usuarios[1].tokenRecuperacion = SqlNull
        /\ srv[r].handler = "postResetPassword" /\ srv[r].token = 1
        /\ srv[r].pc = "done" /\ srv[r].mensaje = "invalido o expirado"

(***************************************************************************)
(* C39: every attempt starts a timer of its own.  When the timer of        *)
(* attempt k of a call fires, the only thing it can end is attempt k of    *)
(* that call, with AbortError; fired at any other moment, in a later       *)
(* attempt, in a sleep or after the call returned, it changes nothing of   *)
(* that call, and it never changes another call or the cache.              *)
(***************************************************************************)
\* the call but for its timers
Untimed(call) == [call EXCEPT !.timers = {}]

C39_TimerAbortsOnlyItsOwnAttempt ==
    [][\A c \in Slots :
          /\ calls'[c].fetches = calls[c].fetches + 1 =>
                 /\ calls'[c].attempt \notin calls[c].timers
                 /\ calls'[c].timers = calls[c].timers \cup {calls'[c].attempt}
          /\ \A k \in calls[c].timers \ calls'[c].timers :
                 /\ apiCache' = apiCache
                 /\ \A d \in Slots \ {c} : calls'[d] = calls[d]
                 /\ IF calls[c].pc = "fetching" /\ calls[c].attempt = k
                    THEN /\ calls'[c].pc \in {"sleeping", "post"}
                         /\ FinalError(calls'[c]) = AbortError
                    ELSE Untimed(calls'[c]) = Untimed(calls[c])]_vars

\* the first attempt of a call failed with HTTP 500, its timer fired
\* afterwards, and the second attempt is in flight with its own timer
C39_Witness ==
    \E c \in Slots :
        /\ calls[c].pc = "fetching" /\ calls[c].attempt = 2
        /\ calls[c].errors = <<HttpError(500)>>
        /\ calls[c].timers = {2}
        /\ \E d \in Slots \ {c} :
               calls[d].pc = "done" /\ calls[d].result.success /\ calls[d].timers = {}

====
